---- MODULE Spec2Model ----
(***************************************************************************)
(* Inventory management backend (Identity / Product / Inventory contexts). *)
(* State machine of the EstoqueProduto entity, the EstoqueService domain   *)
(* service, the EstoqueApplicationService over the relational store,       *)
(* AuthApplicationService over the user store, the authentication and      *)
(* permission dependencies of the API, UsuarioApplicationService and the   *)
(* seed script, the routers' mapping of exceptions to status codes, the    *)
(* product search, and the commit/rollback protocol of the write services. *)
(***************************************************************************)
EXTENDS Integers, Sequences, FiniteSets, TLC

VARIABLES
    estoque,      \* the EstoqueProduto entity under test (domain object)
    now,          \* datetime.utcnow(), a monotonic clock
    last,         \* the last call on the entity: operation, arguments, exception
    vcall,        \* arguments of a validar_movimentacao_estoque call
    vret,         \* its result
    produtos,     \* committed rows of table produtos, by product id
    estoques,     \* committed rows of table estoque_produtos (a set of rows)
    sess,         \* per request: the AsyncSession and the handler's position
    usuarios,     \* committed rows of table usuarios, by user id
    login_ret,    \* the last login call: arguments and result
    auth_ret,     \* the last request through get_current_user / require_permission
    perm_call,    \* the last Permissao.can_access call: arguments and result
    user_ret,     \* the last call on UsuarioApplicationService or the seed script
    http_ret,     \* the last router call: endpoint, service outcome, response
    catalogo,     \* the product rows search_products reads
    search_ret,   \* the last search_products call: arguments and result
    write_ret,    \* the last write operation of a service: outcome and session use
    async_session_factory, \* connection.py's global: set once init_db has run
    scope,        \* per request: its get_db / get_async_session scope and session
    created,      \* how many sessions async_session_factory() has created
    aggregate,    \* the Produto aggregate under test (domain object)
    update_ret    \* the last Produto.update_info call: arguments and exception

vars == <<estoque, now, last, vcall, vret, produtos, estoques, sess,
          usuarios, login_ret, auth_ret, perm_call, user_ret, http_ret,
          catalogo, search_ret, write_ret, async_session_factory, scope,
          created, aggregate, update_ret>>

----------------------------------------------------------------------------
(* Bounds of the model *)

MaxAtual == 10      \* largest quantidade_atual explored
MaxArg == 7         \* largest movement argument explored
MaxNivel == 1       \* largest nivel_minimo explored
MaxClock == 1       \* number of clock ticks explored

ArgRange == -1 .. MaxArg
AtualRange == -1 .. MaxAtual
NivelRange == -1 .. MaxNivel

----------------------------------------------------------------------------
(* Exceptions: src/shared/domain/exceptions/base.py *)

NoException == "none"
ValidationException == "ValidationException"
BusinessRuleException == "BusinessRuleException"

----------------------------------------------------------------------------
(* UnidadeMedida: src/produto/domain/value_objects/unidade_medida.py *)

TipoUnidadeMedida ==
    {"UN", "KG", "G", "L", "ML", "M", "CM", "M2", "M3", "CX", "PCT", "FD"}

\* str.upper() on the unit codes the model draws
upper(str) ==
    CASE str = "un" -> "UN"
      [] str = "kg" -> "KG"
      [] OTHER -> str

\* UnidadeMedida(tipo): upper-cases a string and looks it up in the enumeration
UnidadeMedida(tipo) ==
    IF upper(tipo) \in TipoUnidadeMedida
    THEN [exc |-> NoException, codigo |-> upper(tipo)]
    ELSE [exc |-> ValidationException, codigo |-> "none"]

\* ValueObject equality is by value (shared/domain/value_objects/base.py)
ValueObjectEq(a, b) == a = b

----------------------------------------------------------------------------
(* EstoqueProduto: src/estoque/domain/entities/estoque_produto.py *)

NoEstoque ==
    [exists |-> FALSE, id |-> "none", produto_id |-> "none",
     quantidade_atual |-> 0, quantidade_reservada |-> 0,
     nivel_minimo |-> 0, unidade_medida |-> "none", atualizado_em |-> 0]

\* __init__: the four validations, then the fields, the unit of measure
\* (a string is resolved through UnidadeMedida) and atualizado_em = utcnow()
EstoqueProduto(produto_id, quantidade_atual, unidade_medida, quantidade_reservada, nivel_minimo, id, t) ==
    IF quantidade_atual < 0
    THEN [exc |-> ValidationException, ent |-> NoEstoque]
    ELSE IF quantidade_reservada < 0
    THEN [exc |-> ValidationException, ent |-> NoEstoque]
    ELSE IF nivel_minimo < 0
    THEN [exc |-> ValidationException, ent |-> NoEstoque]
    ELSE IF quantidade_reservada > quantidade_atual
    THEN [exc |-> ValidationException, ent |-> NoEstoque]
    ELSE IF UnidadeMedida(unidade_medida).exc # NoException
    THEN [exc |-> ValidationException, ent |-> NoEstoque]
    ELSE [exc |-> NoException,
          ent |-> [exists |-> TRUE, id |-> id, produto_id |-> produto_id,
                   quantidade_atual |-> quantidade_atual,
                   quantidade_reservada |-> quantidade_reservada,
                   nivel_minimo |-> nivel_minimo,
                   unidade_medida |-> UnidadeMedida(unidade_medida).codigo,
                   atualizado_em |-> t]]

quantidade_disponivel(e) == e.quantidade_atual - e.quantidade_reservada

has_available_stock(e, quantidade) == quantidade_disponivel(e) >= quantidade

is_below_minimum(e) == e.quantidade_atual <= e.nivel_minimo

is_out_of_stock(e) == e.quantidade_atual = 0

\* mutant: the timestamp is not refreshed
adicionar_estoque_sem_timestamp(e, quantidade, t) ==
    IF quantidade <= 0
    THEN [exc |-> ValidationException, ent |-> e]
    ELSE [exc |-> NoException,
          ent |-> [e EXCEPT !.quantidade_atual = @ + quantidade]]

adicionar_estoque(e, quantidade, t) ==
    IF quantidade <= 0
    THEN [exc |-> ValidationException, ent |-> e]
    ELSE [exc |-> NoException,
          ent |-> [e EXCEPT !.quantidade_atual = @ + quantidade,
                            !.atualizado_em = t]]

\* mutant: a removal consumes the reservation first
remover_estoque_consome_reserva(e, quantidade, t) ==
    IF quantidade <= 0
    THEN [exc |-> ValidationException, ent |-> e]
    ELSE IF quantidade > e.quantidade_atual
    THEN [exc |-> BusinessRuleException, ent |-> e]
    ELSE [exc |-> NoException,
          ent |-> [e EXCEPT !.quantidade_atual = @ - quantidade,
                            !.quantidade_reservada =
                                IF @ > quantidade THEN @ - quantidade ELSE 0,
                            !.atualizado_em = t]]

\* mutant: the removal is checked against quantidade_atual, not the available quantity
remover_estoque_ignora_reserva(e, quantidade, t) ==
    IF quantidade <= 0
    THEN [exc |-> ValidationException, ent |-> e]
    ELSE IF quantidade > e.quantidade_atual
    THEN [exc |-> BusinessRuleException, ent |-> e]
    ELSE [exc |-> NoException,
          ent |-> [e EXCEPT !.quantidade_atual = @ - quantidade,
                            !.atualizado_em = t]]

remover_estoque(e, quantidade, t) ==
    IF quantidade <= 0
    THEN [exc |-> ValidationException, ent |-> e]
    ELSE IF quantidade > quantidade_disponivel(e)
    THEN [exc |-> BusinessRuleException, ent |-> e]
    ELSE [exc |-> NoException,
          ent |-> [e EXCEPT !.quantidade_atual = @ - quantidade,
                            !.atualizado_em = t]]

\* mutant: releasing a reservation also consumes the stock
liberar_reserva_consome(e, quantidade, t) ==
    IF quantidade <= 0
    THEN [exc |-> ValidationException, ent |-> e]
    ELSE IF quantidade > e.quantidade_reservada
    THEN [exc |-> BusinessRuleException, ent |-> e]
    ELSE [exc |-> NoException,
          ent |-> [e EXCEPT !.quantidade_reservada = @ - quantidade,
                            !.quantidade_atual = @ - quantidade,
                            !.atualizado_em = t]]

liberar_reserva(e, quantidade, t) ==
    IF quantidade <= 0
    THEN [exc |-> ValidationException, ent |-> e]
    ELSE IF quantidade > e.quantidade_reservada
    THEN [exc |-> BusinessRuleException, ent |-> e]
    ELSE [exc |-> NoException,
          ent |-> [e EXCEPT !.quantidade_reservada = @ - quantidade,
                            !.atualizado_em = t]]

\* mutant: the target is not compared with the reserved quantity
ajustar_estoque_sem_reserva(e, nova_quantidade, t) ==
    IF nova_quantidade < 0
    THEN [exc |-> ValidationException, ent |-> e]
    ELSE [exc |-> NoException,
          ent |-> [e EXCEPT !.quantidade_atual = nova_quantidade,
                            !.atualizado_em = t]]

\* mutant: the target is compared with <= against the reserved quantity
ajustar_estoque_limite_estrito(e, nova_quantidade, t) ==
    IF nova_quantidade < 0
    THEN [exc |-> ValidationException, ent |-> e]
    ELSE IF nova_quantidade <= e.quantidade_reservada
    THEN [exc |-> BusinessRuleException, ent |-> e]
    ELSE [exc |-> NoException,
          ent |-> [e EXCEPT !.quantidade_atual = nova_quantidade,
                            !.atualizado_em = t]]

ajustar_estoque(e, nova_quantidade, t) ==
    IF nova_quantidade < 0
    THEN [exc |-> ValidationException, ent |-> e]
    ELSE IF nova_quantidade < e.quantidade_reservada
    THEN [exc |-> BusinessRuleException, ent |-> e]
    ELSE [exc |-> NoException,
          ent |-> [e EXCEPT !.quantidade_atual = nova_quantidade,
                            !.atualizado_em = t]]

update_minimum_level(e, nivel_minimo, t) ==
    IF nivel_minimo < 0
    THEN [exc |-> ValidationException, ent |-> e]
    ELSE [exc |-> NoException,
          ent |-> [e EXCEPT !.nivel_minimo = nivel_minimo, !.atualizado_em = t]]

----------------------------------------------------------------------------
(* Produto: src/produto/domain/entities/produto.py (the fields the          *)
(* inventory context reads)                                                 *)

NoProduto == [exists |-> FALSE, id |-> "none", ativo |-> FALSE, unidade_medida |-> "none"]

\* a product id whose row was deleted: uuid4 never issues it again
DeletedProduto == [NoProduto EXCEPT !.id = "deleted"]

Produto(id, unidade_medida, ativo) ==
    [exists |-> TRUE, id |-> id, ativo |-> ativo,
     unidade_medida |-> UnidadeMedida(unidade_medida).codigo]

----------------------------------------------------------------------------
(* EstoqueService: src/estoque/domain/services/estoque_service.py *)

MsgInactive == "Cannot move stock for inactive product"
MsgUnitMismatch == "Unit mismatch between product and inventory"
MsgNotPositive == "Movement quantity must be positive"
MsgInsufficient == "Insufficient stock"

\* mutant: the quantity is validated before the unit consistency
validar_movimentacao_estoque_ordem_trocada(e, produto, quantidade, tipo_operacao) ==
    IF ~produto.ativo
    THEN [exc |-> BusinessRuleException, msg |-> MsgInactive,
          estoque |-> e, produto |-> produto]
    ELSE IF quantidade <= 0
    THEN [exc |-> BusinessRuleException, msg |-> MsgNotPositive,
          estoque |-> e, produto |-> produto]
    ELSE IF ~ValueObjectEq(e.unidade_medida, produto.unidade_medida)
    THEN [exc |-> BusinessRuleException, msg |-> MsgUnitMismatch,
          estoque |-> e, produto |-> produto]
    ELSE IF tipo_operacao \in {"saida", "remover"} /\ ~has_available_stock(e, quantidade)
    THEN [exc |-> BusinessRuleException, msg |-> MsgInsufficient,
          estoque |-> e, produto |-> produto]
    ELSE [exc |-> NoException, msg |-> "", estoque |-> e, produto |-> produto]

\* the result carries the two objects as the call leaves them
validar_movimentacao_estoque(e, produto, quantidade, tipo_operacao) ==
    IF ~produto.ativo
    THEN [exc |-> BusinessRuleException, msg |-> MsgInactive,
          estoque |-> e, produto |-> produto]
    ELSE IF ~ValueObjectEq(e.unidade_medida, produto.unidade_medida)
    THEN [exc |-> BusinessRuleException, msg |-> MsgUnitMismatch,
          estoque |-> e, produto |-> produto]
    ELSE IF quantidade <= 0
    THEN [exc |-> BusinessRuleException, msg |-> MsgNotPositive,
          estoque |-> e, produto |-> produto]
    ELSE IF tipo_operacao \in {"saida", "remover"} /\ ~has_available_stock(e, quantidade)
    THEN [exc |-> BusinessRuleException, msg |-> MsgInsufficient,
          estoque |-> e, produto |-> produto]
    ELSE [exc |-> NoException, msg |-> "", estoque |-> e, produto |-> produto]

----------------------------------------------------------------------------
(* Defaults of the variables a specification does not use *)

NoVCall == [estoque |-> NoEstoque, produto |-> NoProduto, quantidade |-> 0,
            tipo_operacao |-> "none"]

NoVRet == [done |-> FALSE, exc |-> NoException, msg |-> "",
           estoque |-> NoEstoque, produto |-> NoProduto]

\* a call on the entity: the operation, its arguments (arg is the quantity,
\* or quantidade_atual for the constructor), the exception raised, the
\* entity before the call and the time of the call
Call(op, arg, reservada, nivel, unidade, exc, pre, at) ==
    [op |-> op, arg |-> arg, reservada |-> reservada, nivel |-> nivel,
     unidade |-> unidade, exc |-> exc, pre |-> pre, at |-> at]

NoCall == Call("none", 0, 0, 0, "none", NoException, NoEstoque, 0)

entityVars == <<estoque, now, last>>
validarVars == <<vcall, vret>>
storeVars == <<produtos, estoques, sess>>
loginVars == <<usuarios, login_ret>>
authVars == <<auth_ret>>
permVars == <<perm_call>>
userVars == <<user_ret>>
httpVars == <<http_ret>>
searchVars == <<catalogo, search_ret>>
writeVars == <<write_ret>>
scopeVars == <<async_session_factory, scope, created>>
produtoVars == <<aggregate, update_ret>>
moreVars == <<scopeVars, produtoVars>>
callVars == <<authVars, permVars, userVars, httpVars, searchVars, writeVars,
              moreVars>>

----------------------------------------------------------------------------
(* Table estoque_produtos and SqlAlchemyEstoqueRepository:                  *)
(* src/inventory/infrastructure/models/estoque_model.py,                    *)
(* src/estoque/infrastructure/repositories/sqlalchemy_estoque_repository.py *)

IntegrityError == "IntegrityError"
DBAPIError == "DBAPIError"
MultipleResultsFound == "MultipleResultsFound"

NoRow ==
    [id |-> 0, produto_id |-> "none", quantidade_atual |-> 0,
     quantidade_reservada |-> 0, nivel_minimo |-> 0,
     unidade_medida |-> "none", atualizado_em |-> 0]

\* mutant: the column is declared without unique=True
produto_id_not_unique == FALSE

\* Column(..., ForeignKey(...), unique=True, ...) on estoque_produtos.produto_id
produto_id_unique == TRUE

_entity_to_model(e) ==
    [id |-> e.id, produto_id |-> e.produto_id,
     quantidade_atual |-> e.quantidade_atual,
     quantidade_reservada |-> e.quantidade_reservada,
     nivel_minimo |-> e.nivel_minimo,
     unidade_medida |-> e.unidade_medida,
     atualizado_em |-> e.atualizado_em]

\* builds the entity through its constructor, then sets the stored timestamp
_model_to_entity(model) ==
    LET r == EstoqueProduto(model.produto_id, model.quantidade_atual,
                            model.unidade_medida, model.quantidade_reservada,
                            model.nivel_minimo, model.id, 0) IN
    IF r.exc # NoException
    THEN r
    ELSE [exc |-> NoException,
          ent |-> [r.ent EXCEPT !.atualizado_em = model.atualizado_em]]

\* select(EstoqueModel).where(produto_id == p), scalar_one_or_none()
get_by_produto_id(rows, p) ==
    LET found == {r \in rows : r.produto_id = p} IN
    IF found = {}
    THEN [exc |-> NoException, ent |-> NoEstoque]
    ELSE IF Cardinality(found) > 1
    THEN [exc |-> MultipleResultsFound, ent |-> NoEstoque]
    ELSE _model_to_entity(CHOOSE r \in found : TRUE)

\* mutant: an optimistic check, the UPDATE applies only to a row that still
\* holds the quantity that was loaded
FlushUpdate_com_versao(row, loaded, e) ==
    IF row.quantidade_atual # loaded.quantidade_atual
    THEN row
    ELSE [row EXCEPT !.quantidade_atual = e.quantidade_atual,
                     !.atualizado_em = e.atualizado_em]

\* the UPDATE the unit of work flushes: the attributes whose assigned value
\* differs from the loaded one, applied to the row as it is in the table
FlushUpdate(row, loaded, e) ==
    [row EXCEPT
       !.quantidade_atual =
           IF e.quantidade_atual # loaded.quantidade_atual THEN e.quantidade_atual ELSE @,
       !.quantidade_reservada =
           IF e.quantidade_reservada # loaded.quantidade_reservada THEN e.quantidade_reservada ELSE @,
       !.nivel_minimo =
           IF e.nivel_minimo # loaded.nivel_minimo THEN e.nivel_minimo ELSE @,
       !.unidade_medida =
           IF e.unidade_medida # loaded.unidade_medida THEN e.unidade_medida ELSE @,
       !.atualizado_em =
           IF e.atualizado_em # loaded.atualizado_em THEN e.atualizado_em ELSE @]

----------------------------------------------------------------------------
(* Requests: one AsyncSession (one transaction) per request *)

Sessions == {"s1", "s2"}
ProdIds == {"p1"}
UnitsExplored == {"UN", "KG"}
ProductUnits == {"KG"}

MaxStoreQty == 2    \* largest stored quantidade_atual explored
MaxMov == 2         \* largest quantity of a stock movement request
MaxReserva == 1     \* largest quantidade_reservada of a create request

NoDTO ==
    [produto_id |-> "none", quantidade_atual |-> 0, quantidade_reservada |-> 0,
     nivel_minimo |-> 0, unidade_medida |-> "none", quantidade |-> 0,
     nova_quantidade |-> 0]

\* EstoqueCreateDTO: the three quantities are validated ge=0, the unit is any string
EstoqueCreateDTO ==
    [produto_id : ProdIds, quantidade_atual : 0 .. MaxMov,
     quantidade_reservada : 0 .. MaxReserva, nivel_minimo : {0},
     unidade_medida : {"UN", "kg", "XX"}, quantidade : {0}, nova_quantidade : {0}]

\* EstoqueMovimentacaoDTO: quantidade is validated gt=0
EstoqueMovimentacaoDTO ==
    [produto_id : ProdIds, quantidade_atual : {0}, quantidade_reservada : {0},
     nivel_minimo : {0}, unidade_medida : {"none"}, quantidade : 1 .. MaxMov,
     nova_quantidade : {0}]

\* EstoqueAjusteDTO: nova_quantidade is validated ge=0
EstoqueAjusteDTO ==
    [produto_id : ProdIds, quantidade_atual : {0}, quantidade_reservada : {0},
     nivel_minimo : {0}, unidade_medida : {"none"}, quantidade : {0},
     nova_quantidade : 0 .. MaxMov]

\* the rows create_inventory commits for a product of unit KG
CreatedRows ==
    { [id |-> 1, produto_id |-> p, quantidade_atual |-> a,
       quantidade_reservada |-> r, nivel_minimo |-> n,
       unidade_medida |-> "KG", atualizado_em |-> 0] :
      p \in ProdIds, a \in 0 .. MaxStoreQty, r \in 0 .. MaxReserva,
      n \in 0 .. MaxNivel }

NoPending == [kind |-> "none", row |-> NoRow, loaded |-> NoEstoque, ent |-> NoEstoque]

IdleSession ==
    [pc |-> "idle", op |-> "none", dto |-> NoDTO, inventory |-> NoEstoque,
     product |-> NoProduto, pending |-> NoPending, exc |-> NoException,
     msg |-> "", had_record |-> FALSE]

\* except Exception: await self.db.rollback(); raise
\* (of a finished request the record keeps the operation, the product it named
\* and the outcome)
Raise(rec, exc, msg) ==
    [rec EXCEPT !.pc = "failed", !.exc = exc, !.msg = msg, !.pending = NoPending,
                !.inventory = NoEstoque, !.product = NoProduto,
                !.dto = [NoDTO EXCEPT !.produto_id = rec.dto.produto_id]]

\* uuid4(): an identifier no row has
NewId ==
    LET used == {r.id : r \in estoques} \cup {sess[t].pending.row.id : t \in Sessions}
    IN  CHOOSE i \in 1 .. Cardinality(used) + 1 : i \notin used

\* another open transaction has inserted a row for product p and not committed
KeyLockedByOther(s, p) ==
    \E t \in Sessions \ {s} :
        sess[t].pending.kind # "none" /\ sess[t].pending.row.produto_id = p

\* another open transaction has written the row and not committed
RowLockedByOther(s, id) ==
    \E t \in Sessions \ {s} :
        sess[t].pending.kind # "none" /\ sess[t].pending.row.id = id

----------------------------------------------------------------------------
(* EstoqueApplicationService:                                               *)
(* src/estoque/application/services/estoque_application_service.py          *)

MsgProductNotFound == "Product not found"
MsgInventoryExists == "Inventory already exists for product"
MsgInventoryNotFound == "Inventory not found for product"

\* create_inventory, up to the first await: produto_repository.get_by_id
StartCreateInventory(s) ==
    /\ sess[s].pc = "idle"
    /\ \E dto \in EstoqueCreateDTO :
         LET product == produtos[dto.produto_id]
             rec == [IdleSession EXCEPT
                       !.op = "create_inventory", !.dto = dto,
                       !.had_record = (\E r \in estoques : r.produto_id = dto.produto_id)]
         IN  sess' = [sess EXCEPT ![s] =
                        IF ~product.exists
                        THEN Raise(rec, BusinessRuleException, MsgProductNotFound)
                        ELSE [rec EXCEPT !.pc = "create_got_product",
                                         !.product = product]]
    /\ UNCHANGED <<produtos, estoques, entityVars, validarVars, callVars, loginVars>>

\* mutant: create_inventory stores the entity without the validation
CreateLocal_sem_validacao(rec, id, t) ==
    LET dto == rec.dto
        u == UnidadeMedida(dto.unidade_medida)
        r == EstoqueProduto(dto.produto_id, dto.quantidade_atual, u.codigo,
                            dto.quantidade_reservada, dto.nivel_minimo, id, t)
    IN  IF u.exc # NoException
        THEN [exc |-> u.exc, msg |-> "", ent |-> NoEstoque]
        ELSE IF r.exc # NoException
        THEN [exc |-> r.exc, msg |-> "", ent |-> NoEstoque]
        ELSE [exc |-> NoException, msg |-> "", ent |-> r.ent]

\* create_inventory lines 56-68: the entity and the domain-service validation
CreateLocal(rec, id, t) ==
    LET dto == rec.dto
        u == UnidadeMedida(dto.unidade_medida)
        r == EstoqueProduto(dto.produto_id, dto.quantidade_atual, u.codigo,
                            dto.quantidade_reservada, dto.nivel_minimo, id, t)
        v == validar_movimentacao_estoque(r.ent, rec.product,
                                          dto.quantidade_atual, "entrada")
    IN  IF u.exc # NoException
        THEN [exc |-> u.exc, msg |-> "", ent |-> NoEstoque]
        ELSE IF r.exc # NoException
        THEN [exc |-> r.exc, msg |-> "", ent |-> NoEstoque]
        ELSE IF v.exc # NoException
        THEN [exc |-> v.exc, msg |-> v.msg, ent |-> NoEstoque]
        ELSE [exc |-> NoException, msg |-> "", ent |-> r.ent]

\* create_inventory: estoque_repository.get_by_produto_id, the existence check
\* and, with no await in between, the entity and the domain-service validation
\* (lines 56-68), up to the call of estoque_repository.create
CreateGetExisting(s) ==
    /\ sess[s].pc = "create_got_product"
    /\ LET existing == get_by_produto_id(estoques, sess[s].dto.produto_id)
           c == CreateLocal(sess[s], 0, now)
       IN  sess' = [sess EXCEPT ![s] =
                      IF existing.exc # NoException
                      THEN Raise(sess[s], existing.exc, "")
                      ELSE IF existing.ent.exists
                      THEN Raise(sess[s], BusinessRuleException, MsgInventoryExists)
                      ELSE IF c.exc # NoException
                      THEN Raise(sess[s], c.exc, c.msg)
                      ELSE [sess[s] EXCEPT !.pc = "create_checked"]]
    /\ UNCHANGED <<produtos, estoques, entityVars, validarVars, callVars, loginVars>>

\* create_inventory: estoque_repository.create of the entity, whose id is a
\* new uuid4 (INSERT at flush: it waits for an uncommitted row with the same
\* key and fails on a committed one)
CreateApply(s) ==
    /\ sess[s].pc = "create_checked"
    /\ LET rec == sess[s]
           p == rec.dto.produto_id
           c == CreateLocal(rec, NewId, now)
       IN  \E dbfail \in BOOLEAN :
             IF dbfail
             THEN sess' = [sess EXCEPT ![s] = Raise(rec, DBAPIError, "")]
             ELSE /\ ~(produto_id_unique /\ KeyLockedByOther(s, p))
                  /\ sess' = [sess EXCEPT ![s] =
                       IF produto_id_unique /\ (\E r \in estoques : r.produto_id = p)
                       THEN Raise(rec, IntegrityError, "")
                       ELSE [rec EXCEPT
                               !.pc = "flushed", !.inventory = c.ent,
                               !.pending = [kind |-> "insert",
                                            row |-> _entity_to_model(c.ent),
                                            loaded |-> NoEstoque,
                                            ent |-> c.ent]]]
    /\ UNCHANGED <<produtos, estoques, entityVars, validarVars, callVars, loginVars>>

\* add_stock / remove_stock, up to the first await: get_by_produto_id
StartMovement(s) ==
    /\ sess[s].pc = "idle"
    /\ \E op \in {"add_stock", "remove_stock"}, dto \in EstoqueMovimentacaoDTO :
         LET inv == get_by_produto_id(estoques, dto.produto_id)
             rec == [IdleSession EXCEPT !.op = op, !.dto = dto]
         IN  sess' = [sess EXCEPT ![s] =
                        IF inv.exc # NoException
                        THEN Raise(rec, inv.exc, "")
                        ELSE IF ~inv.ent.exists
                        THEN Raise(rec, BusinessRuleException, MsgInventoryNotFound)
                        ELSE [rec EXCEPT !.pc = "mov_got_inventory",
                                         !.inventory = inv.ent,
                                         !.had_record = TRUE]]
    /\ UNCHANGED <<produtos, estoques, entityVars, validarVars, callVars, loginVars>>

\* adjust_stock: estoque_repository.get_by_produto_id
StartAdjust(s) ==
    /\ sess[s].pc = "idle"
    /\ \E dto \in EstoqueAjusteDTO :
         LET inv == get_by_produto_id(estoques, dto.produto_id)
             rec == [IdleSession EXCEPT !.op = "adjust_stock", !.dto = dto]
         IN  sess' = [sess EXCEPT ![s] =
                        IF inv.exc # NoException
                        THEN Raise(rec, inv.exc, "")
                        ELSE IF ~inv.ent.exists
                        THEN Raise(rec, BusinessRuleException, MsgInventoryNotFound)
                        ELSE [rec EXCEPT !.pc = "mov_got_inventory",
                                         !.inventory = inv.ent,
                                         !.had_record = TRUE]]
    /\ UNCHANGED <<produtos, estoques, entityVars, validarVars, callVars, loginVars>>

\* mutant: adjust_stock runs the movement validation on the new quantity
MovLocal_ajuste_validado(rec, t) ==
    LET q == IF rec.op = "adjust_stock" THEN rec.dto.nova_quantidade
             ELSE rec.dto.quantidade
        v == validar_movimentacao_estoque(
                 rec.inventory, rec.product, q,
                 IF rec.op = "remove_stock" THEN "saida" ELSE "entrada")
        m == IF rec.op = "add_stock"
             THEN adicionar_estoque(rec.inventory, q, t)
             ELSE IF rec.op = "remove_stock"
             THEN remover_estoque(rec.inventory, q, t)
             ELSE ajustar_estoque(rec.inventory, q, t)
    IN  IF v.exc # NoException
        THEN [exc |-> v.exc, msg |-> v.msg, ent |-> rec.inventory]
        ELSE IF m.exc # NoException
        THEN [exc |-> m.exc, msg |-> "", ent |-> rec.inventory]
        ELSE [exc |-> NoException, msg |-> "", ent |-> m.ent]

\* mutant: remove_stock calls the entity's adicionar_estoque
MovLocal_sempre_adiciona(rec, t) ==
    LET q == rec.dto.quantidade
        v == validar_movimentacao_estoque(
                 rec.inventory, rec.product, q,
                 IF rec.op = "add_stock" THEN "entrada" ELSE "saida")
        m == adicionar_estoque(rec.inventory, q, t)
        a == ajustar_estoque(rec.inventory, rec.dto.nova_quantidade, t)
    IN  IF rec.op = "adjust_stock"
        THEN [exc |-> a.exc, msg |-> "", ent |-> a.ent]
        ELSE IF v.exc # NoException
        THEN [exc |-> v.exc, msg |-> v.msg, ent |-> rec.inventory]
        ELSE IF m.exc # NoException
        THEN [exc |-> m.exc, msg |-> "", ent |-> rec.inventory]
        ELSE [exc |-> NoException, msg |-> "", ent |-> m.ent]

\* add_stock lines 128-134 / remove_stock lines 166-172: the domain-service
\* validation, then the entity's mutator; adjust_stock lines 204-206: the
\* entity's ajustar_estoque alone
MovLocal(rec, t) ==
    LET q == rec.dto.quantidade
        v == validar_movimentacao_estoque(
                 rec.inventory, rec.product, q,
                 IF rec.op = "add_stock" THEN "entrada" ELSE "saida")
        m == IF rec.op = "add_stock"
             THEN adicionar_estoque(rec.inventory, q, t)
             ELSE remover_estoque(rec.inventory, q, t)
        a == ajustar_estoque(rec.inventory, rec.dto.nova_quantidade, t)
    IN  IF rec.op = "adjust_stock"
        THEN [exc |-> a.exc, msg |-> "", ent |-> a.ent]
        ELSE IF v.exc # NoException
        THEN [exc |-> v.exc, msg |-> v.msg, ent |-> rec.inventory]
        ELSE IF m.exc # NoException
        THEN [exc |-> m.exc, msg |-> "", ent |-> rec.inventory]
        ELSE [exc |-> NoException, msg |-> "", ent |-> m.ent]

\* add_stock / remove_stock: produto_repository.get_by_id and, with no await
\* in between, the validation and the entity's mutator, up to the call of
\* estoque_repository.update
MovGetProduct(s) ==
    /\ sess[s].pc = "mov_got_inventory"
    /\ LET product == produtos[sess[s].dto.produto_id]
           rec == [sess[s] EXCEPT !.product = product]
           m == MovLocal(rec, now)
       IN  sess' = [sess EXCEPT ![s] =
                      IF ~product.exists
                      THEN Raise(sess[s], BusinessRuleException, MsgProductNotFound)
                      ELSE IF m.exc # NoException
                      THEN Raise(rec, m.exc, m.msg)
                      ELSE [rec EXCEPT !.pc = "mov_got_product"]]
    /\ UNCHANGED <<produtos, estoques, entityVars, validarVars, callVars, loginVars>>

\* add_stock / remove_stock: estoque_repository.update of the mutated entity
\* (UPDATE at flush: it waits for the row lock of an uncommitted write)
MovApply(s) ==
    /\ sess[s].pc = "mov_got_product"
    /\ LET rec == sess[s]
           m == MovLocal(rec, now)
           found == {r \in estoques : r.id = rec.inventory.id}
       IN  IF found = {}
           THEN sess' = [sess EXCEPT ![s] = Raise(rec, "ValueError", "")]
           ELSE \E dbfail \in BOOLEAN :
                  IF dbfail
                  THEN sess' = [sess EXCEPT ![s] = Raise(rec, DBAPIError, "")]
                  ELSE /\ m.ent.quantidade_atual <= MaxStoreQty
                       /\ ~RowLockedByOther(s, rec.inventory.id)
                       /\ sess' = [sess EXCEPT ![s] =
                              [rec EXCEPT
                                 !.pc = "flushed",
                                 !.pending = [kind |-> "update",
                                              row |-> CHOOSE r \in found : TRUE,
                                              loaded |-> rec.inventory,
                                              ent |-> m.ent]]]
    /\ UNCHANGED <<produtos, estoques, entityVars, validarVars, callVars, loginVars>>

\* the table after the transaction's pending write is committed
Committed(rows, pending) ==
    IF pending.kind = "insert"
    THEN rows \cup {pending.row}
    ELSE { IF r.id = pending.row.id
           THEN FlushUpdate(r, pending.loaded, pending.ent)
           ELSE r : r \in rows }

\* await self.db.commit(), or its failure and the rollback
Commit(s) ==
    /\ sess[s].pc = "flushed"
    /\ \E dbfail \in BOOLEAN :
         IF dbfail
         THEN /\ sess' = [sess EXCEPT ![s] = Raise(sess[s], DBAPIError, "")]
              /\ UNCHANGED estoques
         ELSE /\ estoques' = Committed(estoques, sess[s].pending)
              /\ sess' = [sess EXCEPT ![s] =
                            [sess[s] EXCEPT
                               !.pc = "done", !.pending = NoPending,
                               !.inventory = NoEstoque, !.product = NoProduto,
                               !.dto = [NoDTO EXCEPT
                                          !.produto_id = sess[s].dto.produto_id]]]
    /\ UNCHANGED <<produtos, entityVars, validarVars, callVars, loginVars>>

\* the request ends; the next one gets a new session
EndRequest(s) ==
    /\ sess[s].pc \in {"done", "failed"}
    /\ sess' = [sess EXCEPT ![s] = IdleSession]
    /\ UNCHANGED <<produtos, estoques, entityVars, validarVars, callVars, loginVars>>

----------------------------------------------------------------------------
(* ProdutoApplicationService, as the inventory context sees it:             *)
(* src/produto/application/services/produto_application_service.py          *)

\* create_product: a new row with a new id
CreateProduct ==
    /\ \E p \in ProdIds, u \in ProductUnits, a \in BOOLEAN :
         /\ produtos[p] = NoProduto
         /\ produtos' = [produtos EXCEPT ![p] = Produto(p, u, a)]
    /\ UNCHANGED <<estoques, sess, entityVars, validarVars, callVars, loginVars>>

\* update_product with ativo set: activate() / deactivate()
UpdateProductAtivo ==
    /\ \E p \in ProdIds, a \in BOOLEAN :
         /\ produtos[p].exists
         /\ produtos[p].ativo # a
         /\ produtos' = [produtos EXCEPT ![p].ativo = a]
    /\ UNCHANGED <<estoques, sess, entityVars, validarVars, callVars, loginVars>>

\* delete_product.  The foreign key of estoque_produtos.produto_id names
\* inventory.produtos while the product table is product.produtos, so no
\* reference guards the deletion; where a database does refuse a statement,
\* that is the database failure of the flush and commit steps
DeleteProduct ==
    /\ \E p \in ProdIds :
         /\ produtos[p].exists
         /\ produtos' = [produtos EXCEPT ![p] = DeletedProduto]
    /\ UNCHANGED <<estoques, sess, entityVars, validarVars, callVars, loginVars>>

NextStore ==
    \/ \E s \in Sessions : StartCreateInventory(s)
    \/ \E s \in Sessions : CreateGetExisting(s)
    \/ \E s \in Sessions : CreateApply(s)
    \/ \E s \in Sessions : StartMovement(s)
    \/ \E s \in Sessions : MovGetProduct(s)
    \/ \E s \in Sessions : MovApply(s)
    \/ \E s \in Sessions : Commit(s)
    \/ \E s \in Sessions : EndRequest(s)
    \/ CreateProduct
    \/ UpdateProductAtivo
    \/ DeleteProduct

\* the movements of stock of a product that has an inventory record
NextMovimentos ==
    \/ \E s \in Sessions : StartMovement(s)
    \/ \E s \in Sessions : StartAdjust(s)
    \/ \E s \in Sessions : MovGetProduct(s)
    \/ \E s \in Sessions : MovApply(s)
    \/ \E s \in Sessions : Commit(s)
    \/ \E s \in Sessions : EndRequest(s)
    \/ UpdateProductAtivo

\* two requests, one per session, and nothing after them
NextRace ==
    \/ \E s \in Sessions : StartMovement(s)
    \/ \E s \in Sessions : StartAdjust(s)
    \/ \E s \in Sessions : MovGetProduct(s)
    \/ \E s \in Sessions : MovApply(s)
    \/ \E s \in Sessions : Commit(s)

----------------------------------------------------------------------------
(* Permissao: src/identidade/domain/value_objects/permissao.py *)

AcaoPermissao == {"read", "write", "delete", "*"}
RecursoPermissao ==
    {"produtos", "estoque", "movimentacoes", "relatorios", "usuarios", "admin"}

Permissao(recurso, acao) == [recurso |-> recurso, acao |-> acao]

to_string(perm) == perm.recurso \o ":" \o perm.acao

\* split(":", 1) and the two enumeration lookups
from_string(permission_str) ==
    LET parsed == { Permissao(r, a) : r \in RecursoPermissao, a \in AcaoPermissao }
        match == { q \in parsed : to_string(q) = permission_str }
    IN  IF match = {}
        THEN [exc |-> ValidationException, perm |-> Permissao("none", "none")]
        ELSE [exc |-> NoException, perm |-> CHOOSE q \in match : TRUE]

----------------------------------------------------------------------------
(* Usuario: src/identidade/domain/entities/usuario.py, and table usuarios:  *)
(* src/identidade/infrastructure/models/usuario_model.py                    *)

\* pwd_context.hash / pwd_context.verify (bcrypt): a one-way digest that
\* verifies exactly the password it was made from
pwd_hash(senha) == <<"bcrypt", senha>>
pwd_verify(senha, senha_hash) == senha_hash = pwd_hash(senha)

NoUsuario ==
    [exists |-> FALSE, id |-> "none", email |-> "none", nome |-> "none",
     senha_hash |-> <<>>, permissoes |-> <<>>, ativo |-> FALSE]

\* a user id whose row was deleted: uuid4 never issues it again
DeletedUsuario == [NoUsuario EXCEPT !.id = "deleted"]

verify_password(user, senha) ==
    IF user.senha_hash = <<>> THEN FALSE ELSE pwd_verify(senha, user.senha_hash)

\* SqlAlchemyUsuarioRepository._model_to_entity: the permission strings are parsed
usuario_model_to_entity(model) ==
    [model EXCEPT !.permissoes =
        [i \in 1 .. Len(model.permissoes) |-> from_string(model.permissoes[i]).perm]]

\* SqlAlchemyUsuarioRepository.get_by_email: the row whose email column
\* equals the given string
get_by_email(rows, email) ==
    LET found == { u \in DOMAIN rows : rows[u].exists /\ rows[u].email = email } IN
    IF found = {}
    THEN NoUsuario
    ELSE usuario_model_to_entity(rows[CHOOSE u \in found : TRUE])

----------------------------------------------------------------------------
(* AuthApplicationService.login:                                            *)
(* src/identidade/application/services/auth_application_service.py          *)

jwt_access_token_expire_minutes == 30
jwt_secret_key == "your-super-secret-jwt-key-change-this-in-production"
jwt_algorithm == "HS256"

MsgInvalidCredentials == "Invalid email or password"
MsgDeactivated == "User account is deactivated"

NoClaims == [sub |-> "none", email |-> "none", name |-> "none",
             permissions |-> <<>>, exp |-> 0]

\* jose.jwt.encode: the claims under a signature of the key and algorithm
jwt_encode(claims, key, algorithm) ==
    [payload |-> claims, key |-> key, alg |-> algorithm]

\* jose.jwt.decode: the claims, when the signature is of the key and algorithm
jwt_decode(token, key, algorithm) ==
    IF token.key = key /\ token.alg = algorithm
    THEN [exc |-> NoException, payload |-> token.payload]
    ELSE [exc |-> "JWTError", payload |-> NoClaims]

NoToken == jwt_encode(NoClaims, "none", "none")

NoResponse ==
    [access_token |-> NoToken, token_type |-> "none", expires_in |-> 0,
     user_id |-> "none", user_name |-> "none", permissions |-> <<>>]

LoginFailure(rows, exc, msg) ==
    [exc |-> exc, msg |-> msg, response |-> NoResponse, rows |-> rows]

\* mutant: the active flag is not looked at
login_sem_ativo(rows, email, senha, t) ==
    LET user == get_by_email(rows, email)
        permissions == [i \in 1 .. Len(user.permissoes) |-> to_string(user.permissoes[i])]
    IN  IF ~user.exists
        THEN LoginFailure(rows, ValidationException, MsgInvalidCredentials)
        ELSE IF ~verify_password(user, senha)
        THEN LoginFailure(rows, ValidationException, MsgInvalidCredentials)
        ELSE [exc |-> NoException, msg |-> "",
              response |->
                [access_token |->
                    jwt_encode([sub |-> user.id, email |-> user.email,
                                name |-> user.nome, permissions |-> permissions,
                                exp |-> t + jwt_access_token_expire_minutes],
                               jwt_secret_key, jwt_algorithm),
                 token_type |-> "bearer",
                 expires_in |-> jwt_access_token_expire_minutes * 60,
                 user_id |-> user.id, user_name |-> user.nome,
                 permissions |-> permissions],
              rows |-> rows]

\* the result carries the table usuarios as the call leaves it
login(rows, email, senha, t) ==
    LET user == get_by_email(rows, email)
        permissions == [i \in 1 .. Len(user.permissoes) |-> to_string(user.permissoes[i])]
    IN  IF ~user.exists
        THEN LoginFailure(rows, ValidationException, MsgInvalidCredentials)
        ELSE IF ~user.ativo
        THEN LoginFailure(rows, BusinessRuleException, MsgDeactivated)
        ELSE IF ~verify_password(user, senha)
        THEN LoginFailure(rows, ValidationException, MsgInvalidCredentials)
        ELSE [exc |-> NoException, msg |-> "",
              response |->
                [access_token |->
                    jwt_encode([sub |-> user.id, email |-> user.email,
                                name |-> user.nome, permissions |-> permissions,
                                exp |-> t + jwt_access_token_expire_minutes],
                               jwt_secret_key, jwt_algorithm),
                 token_type |-> "bearer",
                 expires_in |-> jwt_access_token_expire_minutes * 60,
                 user_id |-> user.id, user_name |-> user.nome,
                 permissions |-> permissions],
              rows |-> rows]

----------------------------------------------------------------------------
(* Permissao.can_access: src/identidade/domain/value_objects/permissao.py   *)

\* the four tests of can_access, in the order of the code
can_access(self, required_permission) ==
    IF self.acao = "*"
    THEN TRUE
    ELSE IF self.recurso = "admin" /\ self.acao = "*"
    THEN TRUE
    ELSE IF self.recurso = required_permission.recurso
            /\ self.acao = required_permission.acao
    THEN TRUE
    ELSE IF self.recurso = required_permission.recurso /\ self.acao = "*"
    THEN TRUE
    ELSE FALSE

----------------------------------------------------------------------------
(* get_current_user, get_current_active_user, require_permission:           *)
(* src/api/dependencies.py                                                  *)

\* HTTPException(status_code, detail, headers); status 0 is "not raised"
HTTPException(status_code, detail, headers) ==
    [status |-> status_code, detail |-> detail, headers |-> headers]

NoHTTPException == HTTPException(0, "", {})

credentials_exception ==
    HTTPException(401, "Could not validate credentials",
                  {<<"WWW-Authenticate", "Bearer">>})

\* jose.jwt.decode at time t: the signature, then the exp claim
\* (ExpiredSignatureError is a JWTError)
jwt_decode_at(token, key, algorithm, t) ==
    LET d == jwt_decode(token, key, algorithm) IN
    IF d.exc # NoException
    THEN d
    ELSE IF d.payload.exp < t
    THEN [exc |-> "JWTError", payload |-> NoClaims]
    ELSE d

\* SqlAlchemyUsuarioRepository.get_by_id
usuario_get_by_id(rows, id) ==
    IF id \in DOMAIN rows /\ rows[id].exists
    THEN usuario_model_to_entity(rows[id])
    ELSE NoUsuario

\* mutant: the user is built from the claims of the token, not loaded
get_current_user_do_token(rows, token, t) ==
    LET d == jwt_decode_at(token, jwt_secret_key, jwt_algorithm, t)
        user_id == d.payload.sub
    IN  IF d.exc # NoException
        THEN [exc |-> credentials_exception, user |-> NoUsuario]
        ELSE IF user_id = "none"
        THEN [exc |-> credentials_exception, user |-> NoUsuario]
        ELSE [exc |-> NoHTTPException,
              user |-> [exists |-> TRUE, id |-> user_id, email |-> d.payload.email,
                        nome |-> d.payload.name, senha_hash |-> "none",
                        permissoes |->
                            [i \in 1 .. Len(d.payload.permissions) |->
                                from_string(d.payload.permissions[i]).perm],
                        ativo |-> TRUE]]

\* mutant: get_current_user returns the loaded user whatever its status
get_current_user_sem_ativo(rows, token, t) ==
    LET d == jwt_decode_at(token, jwt_secret_key, jwt_algorithm, t)
        user_id == d.payload.sub
        user == usuario_get_by_id(rows, user_id)
    IN  IF d.exc # NoException
        THEN [exc |-> credentials_exception, user |-> NoUsuario]
        ELSE IF user_id = "none"
        THEN [exc |-> credentials_exception, user |-> NoUsuario]
        ELSE IF ~user.exists
        THEN [exc |-> credentials_exception, user |-> NoUsuario]
        ELSE [exc |-> NoHTTPException, user |-> user]

\* get_current_user; payload.get("sub") of a token without the claim is "none"
get_current_user(rows, token, t) ==
    LET d == jwt_decode_at(token, jwt_secret_key, jwt_algorithm, t)
        user_id == d.payload.sub
        user == usuario_get_by_id(rows, user_id)
    IN  IF d.exc # NoException
        THEN [exc |-> credentials_exception, user |-> NoUsuario]
        ELSE IF user_id = "none"
        THEN [exc |-> credentials_exception, user |-> NoUsuario]
        ELSE IF ~user.exists
        THEN [exc |-> credentials_exception, user |-> NoUsuario]
        ELSE IF ~user.ativo
        THEN [exc |-> HTTPException(401, "Inactive user", {}), user |-> NoUsuario]
        ELSE [exc |-> NoHTTPException, user |-> user]

\* get_current_active_user, on the result of get_current_user
get_current_active_user(current) ==
    IF current.exc # NoHTTPException
    THEN current
    ELSE IF ~current.user.ativo
    THEN [exc |-> HTTPException(400, "Inactive user", {}), user |-> NoUsuario]
    ELSE current

\* mutant: the catch-all "admin:*" is not looked at
check_permission_sem_admin(current, permission) ==
    LET user_permissions ==
            { to_string(current.user.permissoes[i]) :
                  i \in 1 .. Len(current.user.permissoes) }
    IN  IF current.exc # NoHTTPException
        THEN current
        ELSE IF permission \notin user_permissions
        THEN [exc |-> HTTPException(403, "Permission required: " \o permission, {}),
              user |-> NoUsuario]
        ELSE current

\* require_permission(permission): check_permission, on the result of
\* get_current_active_user
check_permission(current, permission) ==
    LET user_permissions ==
            { to_string(current.user.permissoes[i]) :
                  i \in 1 .. Len(current.user.permissoes) }
    IN  IF current.exc # NoHTTPException
        THEN current
        ELSE IF permission \notin user_permissions /\ "admin:*" \notin user_permissions
        THEN [exc |-> HTTPException(403, "Permission required: " \o permission, {}),
              user |-> NoUsuario]
        ELSE current

\* Usuario.has_permission on a permission string: some held permission
\* can_access the required one (src/identidade/domain/entities/usuario.py)
has_permission(self, required_permission) ==
    LET required == from_string(required_permission).perm IN
    \E i \in 1 .. Len(self.permissoes) : can_access(self.permissoes[i], required)

----------------------------------------------------------------------------
(* Calls on one EstoqueProduto object, with arbitrary integer arguments *)

\* estoque = EstoqueProduto(...): on an exception no object is bound
Construct ==
    /\ ~estoque.exists
    /\ \E qa \in AtualRange, qr \in ArgRange, nm \in NivelRange, u \in {"UN", "XX"} :
         LET r == EstoqueProduto("p1", qa, u, qr, nm, "e1", now) IN
         /\ estoque' = r.ent
         /\ last' = Call("init", qa, qr, nm, u, r.exc, estoque, now)
    /\ UNCHANGED <<now, validarVars, callVars, storeVars, loginVars>>

CallAdicionar ==
    /\ estoque.exists
    /\ \E q \in ArgRange :
         LET r == adicionar_estoque(estoque, q, now) IN
         /\ r.ent.quantidade_atual <= MaxAtual
         /\ estoque' = r.ent
         /\ last' = Call("adicionar_estoque", q, 0, 0, "none", r.exc, estoque, now)
    /\ UNCHANGED <<now, validarVars, callVars, storeVars, loginVars>>

CallRemover ==
    /\ estoque.exists
    /\ \E q \in ArgRange :
         LET r == remover_estoque(estoque, q, now) IN
         /\ estoque' = r.ent
         /\ last' = Call("remover_estoque", q, 0, 0, "none", r.exc, estoque, now)
    /\ UNCHANGED <<now, validarVars, callVars, storeVars, loginVars>>

CallLiberar ==
    /\ estoque.exists
    /\ \E q \in ArgRange :
         LET r == liberar_reserva(estoque, q, now) IN
         /\ estoque' = r.ent
         /\ last' = Call("liberar_reserva", q, 0, 0, "none", r.exc, estoque, now)
    /\ UNCHANGED <<now, validarVars, callVars, storeVars, loginVars>>

CallAjustar ==
    /\ estoque.exists
    /\ \E q \in AtualRange :
         LET r == ajustar_estoque(estoque, q, now) IN
         /\ estoque' = r.ent
         /\ last' = Call("ajustar_estoque", q, 0, 0, "none", r.exc, estoque, now)
    /\ UNCHANGED <<now, validarVars, callVars, storeVars, loginVars>>

CallUpdateMinimum ==
    /\ estoque.exists
    /\ \E n \in NivelRange :
         LET r == update_minimum_level(estoque, n, now) IN
         /\ estoque' = r.ent
         /\ last' = Call("update_minimum_level", n, 0, 0, "none", r.exc, estoque, now)
    /\ UNCHANGED <<now, validarVars, callVars, storeVars, loginVars>>

\* time passes between two calls
Tick ==
    /\ now < MaxClock
    /\ now' = now + 1
    /\ UNCHANGED <<estoque, last, validarVars, callVars, storeVars, loginVars>>

NextEntity ==
    \/ Construct
    \/ CallAdicionar
    \/ CallRemover
    \/ CallLiberar
    \/ CallAjustar
    \/ CallUpdateMinimum
    \/ Tick

----------------------------------------------------------------------------
(* Calls of EstoqueService.validar_movimentacao_estoque *)

MaxVQty == 3        \* largest quantity of a validated movement

TiposOperacao == {"entrada", "saida", "remover", "ajuste"}

\* the inventory entities a caller can hold: the constructor accepted them
ValidEstoques ==
    { EstoqueProduto("p1", qa, u, qr, 0, "e1", 0).ent :
        qa \in 0 .. MaxVQty, qr \in 0 .. MaxVQty, u \in UnitsExplored }
    \ {NoEstoque}

ValidarCalls ==
    [estoque : ValidEstoques,
     produto : { Produto("p1", u, a) : u \in UnitsExplored, a \in BOOLEAN },
     quantidade : -1 .. MaxVQty + 1,
     tipo_operacao : TiposOperacao]

CallValidar ==
    /\ ~vret.done
    /\ LET r == validar_movimentacao_estoque(vcall.estoque, vcall.produto,
                                             vcall.quantidade, vcall.tipo_operacao) IN
       vret' = [done |-> TRUE, exc |-> r.exc, msg |-> r.msg,
                estoque |-> r.estoque, produto |-> r.produto]
    /\ UNCHANGED <<vcall, entityVars, storeVars, loginVars, callVars>>

NextValidar == CallValidar

----------------------------------------------------------------------------
(* UsuarioApplicationService, as login sees it, and login requests:         *)
(* src/identidade/application/services/usuario_application_service.py       *)

UserIds == {"u1", "u2"}
EmailInputs == {"a@x.com", "b@x.com", "A@x.com"}
Senhas == {"senha-1", "senha-2"}
PermissoesInputs == {<<>>, <<"estoque:read">>, <<"admin:*">>}

\* str.strip().lower() on the addresses the model draws
lower(str) == IF str = "A@x.com" THEN "a@x.com" ELSE str

\* Email(valor): trimmed and lower-cased
Email(valor) == lower(valor)

\* SqlAlchemyUsuarioRepository.email_exists: rows whose email equals the string
email_exists(rows, email) ==
    \E u \in DOMAIN rows : rows[u].exists /\ rows[u].email = email

\* create_user: the duplicate check on the address as given, the aggregate
\* with the normalised address and the hashed password, the INSERT under the
\* unique index on email, the commit; a rejected request stores nothing
CreateUser ==
    /\ \E u \in UserIds, email \in EmailInputs, senha \in Senhas,
          permissoes \in PermissoesInputs, ativo \in BOOLEAN :
         /\ usuarios[u] = NoUsuario
         /\ ~email_exists(usuarios, email)
         /\ \A i \in 1 .. Len(permissoes) : from_string(permissoes[i]).exc = NoException
         /\ ~email_exists(usuarios, Email(email))
         /\ usuarios' = [usuarios EXCEPT ![u] =
                [exists |-> TRUE, id |-> u, email |-> Email(email), nome |-> "Nome",
                 senha_hash |-> pwd_hash(senha),
                 permissoes |-> [i \in 1 .. Len(permissoes) |->
                                   to_string(from_string(permissoes[i]).perm)],
                 ativo |-> ativo]]
    /\ UNCHANGED <<login_ret, entityVars, validarVars, callVars, storeVars>>

\* update_user with ativo set: activate() / deactivate()
UpdateUserAtivo ==
    /\ \E u \in UserIds, a \in BOOLEAN :
         /\ usuarios[u].exists
         /\ usuarios[u].ativo # a
         /\ usuarios' = [usuarios EXCEPT ![u].ativo = a]
    /\ UNCHANGED <<login_ret, entityVars, validarVars, callVars, storeVars>>

\* delete_user
DeleteUser ==
    /\ \E u \in UserIds :
         /\ usuarios[u].exists
         /\ usuarios' = [usuarios EXCEPT ![u] = DeletedUsuario]
    /\ UNCHANGED <<login_ret, entityVars, validarVars, callVars, storeVars>>

NoLogin == [email |-> "none", senha |-> "none", exc |-> NoException, msg |-> "",
            response |-> NoResponse, at |-> 0, before |-> [u \in UserIds |-> NoUsuario]]

\* POST /auth/login: one call of AuthApplicationService.login
Login ==
    /\ \E email \in EmailInputs, senha \in Senhas :
         LET r == login(usuarios, email, senha, now) IN
         /\ login_ret' = [email |-> email, senha |-> senha, exc |-> r.exc,
                          msg |-> r.msg, response |-> r.response, at |-> now,
                          before |-> usuarios]
         /\ usuarios' = r.rows
    /\ UNCHANGED <<entityVars, validarVars, callVars, storeVars>>

NextLogin ==
    \/ CreateUser
    \/ UpdateUserAtivo
    \/ DeleteUser
    \/ Login

----------------------------------------------------------------------------
(* Requests on a protected endpoint: Depends(require_permission(...))       *)

\* the permission strings the routers require
RequiredPermissions ==
    {"estoque:write", "usuarios:read", "usuarios:write", "usuarios:delete"}

\* bearer tokens a client can present: of a stored, a deleted or no subject,
\* signed by the service or not, expired or not
TokenSubjects == UserIds \cup {"none"}
TokenInputs ==
    { jwt_encode([NoClaims EXCEPT !.sub = u, !.exp = e], k, a) :
        u \in TokenSubjects, e \in {-1, jwt_access_token_expire_minutes},
        k \in {jwt_secret_key, "forged-key"}, a \in {jwt_algorithm, "HS512"} }

\* permission lists of the stored users of the authorization runs
AuthPermissoes ==
    {<<>>, <<"estoque:write">>, <<"estoque:*">>, <<"admin:*">>,
     <<"usuarios:read", "estoque:read">>}

\* user tables create_user leaves: user "u1" stored, "u2" never created
AuthUsuarios ==
    { [u \in UserIds |->
         IF u = "u1"
         THEN [exists |-> TRUE, id |-> u, email |-> "a@x.com", nome |-> "Nome",
               senha_hash |-> pwd_hash("senha-1"), permissoes |-> ps, ativo |-> a]
         ELSE NoUsuario] : ps \in AuthPermissoes, a \in BOOLEAN }

NoAuth ==
    [called |-> FALSE, token |-> NoToken, permission |-> "none",
     current |-> [exc |-> NoHTTPException, user |-> NoUsuario],
     checked |-> [exc |-> NoHTTPException, user |-> NoUsuario],
     handler_ran |-> FALSE, at |-> 0,
     before |-> [u \in UserIds |-> NoUsuario]]

\* one request: FastAPI resolves get_current_user, get_current_active_user
\* and check_permission, and calls the handler only if none of them raised
Authorize ==
    /\ \E token \in TokenInputs, permission \in RequiredPermissions :
         LET current == get_current_user(usuarios, token, now)
             checked == check_permission(get_current_active_user(current), permission)
         IN  auth_ret' = [called |-> TRUE, token |-> token, permission |-> permission,
                          current |-> current, checked |-> checked,
                          handler_ran |-> (checked.exc = NoHTTPException),
                          at |-> now, before |-> usuarios]
    /\ UNCHANGED <<entityVars, validarVars, storeVars, loginVars,
                   permVars, userVars, httpVars, searchVars,
                   writeVars, moreVars>>

NextAuth ==
    \/ Authorize
    \/ UpdateUserAtivo
    \/ DeleteUser

----------------------------------------------------------------------------
(* UsuarioApplicationService:                                               *)
(* src/identidade/application/services/usuario_application_service.py       *)

MsgEmailExists == "Email already exists"
MsgInvalidPermission == "Invalid permission format"
\* the message of the database for a violated unique index on email
MsgUniqueViolation ==
    "duplicate key value violates unique constraint: Key (email) already exists"

\* the outcome of a service call: the exception and its message, what the
\* call returned, the table it leaves, and what it did to the session
Outcome(exc, msg, returned, rows, flushed, commits, rollbacks) ==
    [exc |-> exc, msg |-> msg, returned |-> returned, rows |-> rows,
     flushed |-> flushed, commits |-> commits, rollbacks |-> rollbacks]

\* the strings of a permission list that Permissao.from_string rejects
InvalidPermissions(permissoes) ==
    { i \in 1 .. Len(permissoes) : from_string(permissoes[i]).exc # NoException }

\* unique index of usuarios.email: another row holds the address
email_taken(rows, id, email) ==
    \E u \in DOMAIN rows : u # id /\ rows[u].exists /\ rows[u].email = email

\* where the database fails a request: at the flush of the repository, at
\* the commit of the service, or nowhere
DbFailures == {"none", "flush", "commit"}

\* create_user(create_dto); id is the uuid4 of the new aggregate, dbfail the
\* failure of the database
create_user(rows, id, create_dto, dbfail) ==
    LET email == Email(create_dto.email)
        row == [exists |-> TRUE, id |-> id, email |-> email, nome |-> "Nome",
                senha_hash |-> pwd_hash(create_dto.senha),
                permissoes |-> [i \in 1 .. Len(create_dto.permissoes) |->
                                  to_string(from_string(create_dto.permissoes[i]).perm)],
                ativo |-> create_dto.ativo]
    IN  IF email_exists(rows, create_dto.email)
        THEN Outcome(BusinessRuleException, MsgEmailExists, "raised", rows, FALSE, 0, 1)
        ELSE IF InvalidPermissions(create_dto.permissoes) # {}
        THEN Outcome(ValidationException, MsgInvalidPermission, "raised", rows,
                     FALSE, 0, 1)
        ELSE IF email_taken(rows, id, email)
        THEN Outcome(IntegrityError, MsgUniqueViolation, "raised", rows, FALSE, 0, 2)
        ELSE IF dbfail = "flush"
        THEN Outcome(DBAPIError, "", "raised", rows, FALSE, 0, 2)
        ELSE IF dbfail = "commit"
        THEN Outcome(DBAPIError, "", "raised", rows, TRUE, 1, 1)
        ELSE Outcome(NoException, "", "user", [rows EXCEPT ![id] = row], TRUE, 1, 0)

\* Usuario.update_name on a name that is blank after trimming
MsgBlankNome == "Nome cannot be empty"

\* mutant: the duplicate check leaves out the user being updated
update_user_exclui_proprio(rows, user_id, update_dto, dbfail) ==
    LET user == rows[user_id]
        with_nome == IF update_dto.nome # "none"
                     THEN [user EXCEPT !.nome = update_dto.nome]
                     ELSE user
        with_email == IF update_dto.email # "none"
                      THEN [with_nome EXCEPT !.email = Email(update_dto.email)]
                      ELSE with_nome
        with_perms == IF update_dto.set_permissoes
                      THEN [with_email EXCEPT !.permissoes =
                              [i \in 1 .. Len(update_dto.permissoes) |->
                                 to_string(from_string(update_dto.permissoes[i]).perm)]]
                      ELSE with_email
        row == IF update_dto.ativo = "none"
               THEN with_perms
               ELSE [with_perms EXCEPT !.ativo = (update_dto.ativo = "true")]
    IN  IF ~user.exists
        THEN Outcome(NoException, "", "None", rows, FALSE, 0, 0)
        ELSE IF update_dto.nome = " "
        THEN Outcome(ValidationException, MsgBlankNome, "raised", rows, FALSE, 0, 1)
        ELSE IF update_dto.email # "none" /\ email_taken(rows, user_id, update_dto.email)
        THEN Outcome(BusinessRuleException, MsgEmailExists, "raised", rows, FALSE, 0, 1)
        ELSE IF update_dto.set_permissoes
                /\ InvalidPermissions(update_dto.permissoes) # {}
        THEN Outcome(ValidationException, MsgInvalidPermission, "raised", rows,
                     FALSE, 0, 1)
        ELSE IF email_taken(rows, user_id, row.email)
        THEN Outcome(IntegrityError, MsgUniqueViolation, "raised", rows, FALSE, 0, 2)
        ELSE IF dbfail = "flush"
        THEN Outcome(DBAPIError, "", "raised", rows, FALSE, 0, 2)
        ELSE IF dbfail = "commit"
        THEN Outcome(DBAPIError, "", "raised", rows, TRUE, 1, 1)
        ELSE Outcome(NoException, "", "user", [rows EXCEPT ![user_id] = row],
                     TRUE, 1, 0)

\* update_user(user_id, update_dto); a field "none" of the DTO is None. The
\* fields are applied to the loaded entity in the order nome, email,
\* permissoes, ativo; the row is written by the repository's update
update_user(rows, user_id, update_dto, dbfail) ==
    LET user == rows[user_id]
        with_nome == IF update_dto.nome # "none"
                     THEN [user EXCEPT !.nome = update_dto.nome]
                     ELSE user
        with_email == IF update_dto.email # "none"
                      THEN [with_nome EXCEPT !.email = Email(update_dto.email)]
                      ELSE with_nome
        with_perms == IF update_dto.set_permissoes
                      THEN [with_email EXCEPT !.permissoes =
                              [i \in 1 .. Len(update_dto.permissoes) |->
                                 to_string(from_string(update_dto.permissoes[i]).perm)]]
                      ELSE with_email
        row == IF update_dto.ativo = "none"
               THEN with_perms
               ELSE [with_perms EXCEPT !.ativo = (update_dto.ativo = "true")]
    IN  IF ~user.exists
        THEN Outcome(NoException, "", "None", rows, FALSE, 0, 0)
        ELSE IF update_dto.nome = " "
        THEN Outcome(ValidationException, MsgBlankNome, "raised", rows, FALSE, 0, 1)
        ELSE IF update_dto.email # "none" /\ email_exists(rows, update_dto.email)
        THEN Outcome(BusinessRuleException, MsgEmailExists, "raised", rows, FALSE, 0, 1)
        ELSE IF update_dto.set_permissoes
                /\ InvalidPermissions(update_dto.permissoes) # {}
        THEN Outcome(ValidationException, MsgInvalidPermission, "raised", rows,
                     FALSE, 0, 1)
        ELSE IF email_taken(rows, user_id, row.email)
        THEN Outcome(IntegrityError, MsgUniqueViolation, "raised", rows, FALSE, 0, 2)
        ELSE IF dbfail = "flush"
        THEN Outcome(DBAPIError, "", "raised", rows, FALSE, 0, 2)
        ELSE IF dbfail = "commit"
        THEN Outcome(DBAPIError, "", "raised", rows, TRUE, 1, 1)
        ELSE Outcome(NoException, "", "user", [rows EXCEPT ![user_id] = row],
                     TRUE, 1, 0)

\* delete_user(user_id)
delete_user(rows, user_id, dbfail) ==
    IF ~rows[user_id].exists
    THEN Outcome(NoException, "", "False", rows, FALSE, 0, 0)
    ELSE IF dbfail = "flush"
    THEN Outcome(DBAPIError, "", "raised", rows, FALSE, 0, 2)
    ELSE IF dbfail = "commit"
    THEN Outcome(DBAPIError, "", "raised", rows, TRUE, 1, 1)
    ELSE Outcome(NoException, "", "True", [rows EXCEPT ![user_id] = DeletedUsuario],
                 TRUE, 1, 0)

UsuarioCreateDTO ==
    [email : EmailInputs, senha : {"senha-1"},
     permissoes : {<<>>, <<"admin:*">>, <<"estoque">>}, ativo : BOOLEAN]

UsuarioUpdateDTO ==
    [nome : {"none"}, email : EmailInputs \cup {"none"},
     set_permissoes : BOOLEAN, permissoes : {<<"estoque:read">>},
     ativo : {"none", "true", "false"}]

NoUserCall ==
    [n |-> 0, op |-> "none", id |-> "none", email |-> "none", exc |-> NoException,
     msg |-> "", returned |-> "none", flushed |-> FALSE, commits |-> 0,
     rollbacks |-> 0]

\* the record of a call: n alternates, so that two equal calls in a row differ
UserCall(op, id, email, r) ==
    [n |-> 1 - user_ret.n, op |-> op, id |-> id, email |-> email, exc |-> r.exc,
     msg |-> r.msg, returned |-> r.returned, flushed |-> r.flushed,
     commits |-> r.commits, rollbacks |-> r.rollbacks]

\* POST /usuarios
CreateUserCall ==
    /\ \E u \in UserIds, dto \in UsuarioCreateDTO, dbfail \in DbFailures :
         /\ usuarios[u] = NoUsuario
         /\ LET r == create_user(usuarios, u, dto, dbfail) IN
            /\ usuarios' = r.rows
            /\ user_ret' = UserCall("create_user", u, dto.email, r)
    /\ UNCHANGED <<login_ret, entityVars, validarVars, storeVars,
                   authVars, permVars, httpVars, searchVars,
                   writeVars, moreVars>>

\* PUT /usuarios/{user_id}
UpdateUserCall(u) ==
    /\ \E dto \in UsuarioUpdateDTO, dbfail \in DbFailures :
         LET r == update_user(usuarios, u, dto, dbfail) IN
         /\ usuarios' = r.rows
         /\ user_ret' = UserCall("update_user", u, dto.email, r)
    /\ UNCHANGED <<login_ret, entityVars, validarVars, storeVars,
                   authVars, permVars, httpVars, searchVars,
                   writeVars, moreVars>>

\* DELETE /usuarios/{user_id}
DeleteUserCall(u) ==
    /\ \E dbfail \in DbFailures :
         LET r == delete_user(usuarios, u, dbfail) IN
         /\ usuarios' = r.rows
         /\ user_ret' = UserCall("delete_user", u, "none", r)
    /\ UNCHANGED <<login_ret, entityVars, validarVars, storeVars,
                   authVars, permVars, httpVars, searchVars,
                   writeVars, moreVars>>

NextUsuario ==
    \/ CreateUserCall
    \/ \E u \in UserIds : UpdateUserCall(u)
    \/ \E u \in UserIds : DeleteUserCall(u)

----------------------------------------------------------------------------
(* The seed script: src/scripts/seed_data.py                                *)

AdminEmail == "admin@inventory.com"

admin_dto ==
    [email |-> AdminEmail, senha |-> "admin123", permissoes |-> <<"admin:*">>,
     ativo |-> TRUE]

\* "already exists" in str(e), on the messages of the model
ContainsAlreadyExists(msg) == msg \in {MsgEmailExists, MsgUniqueViolation}

\* mutant: every failure of create_user is re-raised
create_admin_user_sem_except(rows, id, dbfail) ==
    create_user(rows, id, admin_dto, dbfail)

\* create_admin_user: create_user with the admin DTO; a failure whose message
\* contains "already exists" is logged and swallowed, any other is re-raised
create_admin_user(rows, id, dbfail) ==
    LET r == create_user(rows, id, admin_dto, dbfail) IN
    IF r.exc # NoException /\ ContainsAlreadyExists(r.msg)
    THEN [r EXCEPT !.exc = NoException, !.returned = "None"]
    ELSE IF r.exc # NoException
    THEN r
    ELSE [r EXCEPT !.returned = "None"]

\* one run of the seed script
Seed ==
    /\ \E u \in UserIds, dbfail \in DbFailures :
         /\ usuarios[u] = NoUsuario \/ email_exists(usuarios, AdminEmail)
         /\ LET r == create_admin_user(usuarios, u, dbfail) IN
            /\ usuarios' = r.rows
            /\ user_ret' = UserCall("seed", u, AdminEmail, r)
    /\ UNCHANGED <<login_ret, entityVars, validarVars, storeVars,
                   authVars, permVars, httpVars, searchVars,
                   writeVars, moreVars>>

\* the seed is run and re-run while the other users are managed
NextSeed ==
    \/ Seed
    \/ CreateUserCall
    \/ \E u \in UserIds : usuarios[u].email # AdminEmail /\ UpdateUserCall(u)
    \/ \E u \in UserIds : usuarios[u].email # AdminEmail /\ DeleteUserCall(u)

----------------------------------------------------------------------------
(* The routers: src/api/routers/auth.py, usuarios_routes.py,                *)
(* produtos_routes.py, estoque_routes.py                                    *)

Endpoint(router, handler) == [router |-> router, handler |-> handler]

AuthEndpoints == { Endpoint("auth", h) : h \in {"login", "change_password"} }
UsuariosEndpoints ==
    { Endpoint("usuarios", h) :
        h \in {"create_user", "get_users", "get_user", "update_user", "delete_user"} }
ProdutosEndpoints ==
    { Endpoint("produtos", h) :
        h \in {"create_product", "get_product", "get_product_by_sku", "list_products",
               "search_products", "update_product", "delete_product",
               "get_products_by_category"} }
EstoqueEndpoints ==
    { Endpoint("estoque", h) :
        h \in {"create_inventory", "get_inventory_by_product", "list_inventory",
               "add_stock", "remove_stock", "adjust_stock", "get_low_stock_report",
               "get_out_of_stock_report"} }
Endpoints == AuthEndpoints \cup UsuariosEndpoints \cup ProdutosEndpoints \cup EstoqueEndpoints

\* the domain exceptions the service method behind a handler raises
ServiceRaises(handler) ==
    IF handler \in {"login", "create_user", "update_user", "create_product",
                    "create_inventory", "add_stock", "remove_stock", "adjust_stock"}
    THEN {ValidationException, BusinessRuleException}
    ELSE IF handler \in {"change_password", "update_product"}
    THEN {ValidationException}
    ELSE {}

\* what the service method behind a handler returns
ServiceReturns(handler) ==
    IF handler \in {"get_user", "update_user", "get_product", "get_product_by_sku",
                    "update_product", "get_inventory_by_product"}
    THEN {"value", "None"}
    ELSE IF handler \in {"delete_user", "delete_product"}
    THEN {"True", "False"}
    ELSE {"value"}

\* exceptions of the repository and the database
OtherExceptions == {IntegrityError, DBAPIError, "ValueError"}

SuccessStatus(handler) ==
    IF handler \in {"create_user", "create_product", "create_inventory"} THEN 201
    ELSE IF handler \in {"delete_user", "delete_product"} THEN 204
    ELSE 200

\* the status of the response of a handler whose service call raised exc
\* ("none": it returned `returned`).  The handlers of produtos_routes.py and
\* estoque_routes.py have no try/except and the application registers no
\* exception handler: an exception leaves the handler and the server answers 500
respond(endpoint, exc, returned) ==
    LET h == endpoint.handler IN
    IF endpoint.router \in {"produtos", "estoque"}
    THEN IF exc # NoException THEN 500
         ELSE IF returned \in {"None", "False"} THEN 404
         ELSE SuccessStatus(h)
    ELSE IF h = "login"
    THEN IF exc = ValidationException THEN 401
         ELSE IF exc = BusinessRuleException THEN 403
         ELSE IF exc # NoException THEN 500
         ELSE 200
    ELSE IF h = "change_password"
    THEN IF exc = ValidationException THEN 400
         ELSE IF exc # NoException THEN 500
         ELSE 200
    ELSE IF h \in {"create_user", "update_user"}
    THEN IF exc = ValidationException THEN 400
         ELSE IF exc = BusinessRuleException THEN 409
         ELSE IF exc # NoException THEN 500
         ELSE IF returned = "None" THEN 404
         ELSE SuccessStatus(h)
    ELSE IF exc # NoException THEN 500
         ELSE IF returned \in {"None", "False"} THEN 404
         ELSE SuccessStatus(h)

NoHttpCall ==
    [called |-> FALSE, endpoint |-> Endpoint("none", "none"), exc |-> NoException,
     returned |-> "none", status |-> 0]

\* one request: the service raises or returns, the handler answers
Route ==
    /\ \E endpoint \in Endpoints :
         \/ \E exc \in ServiceRaises(endpoint.handler) \cup OtherExceptions :
              http_ret' = [called |-> TRUE, endpoint |-> endpoint, exc |-> exc,
                           returned |-> "none",
                           status |-> respond(endpoint, exc, "none")]
         \/ \E returned \in ServiceReturns(endpoint.handler) :
              http_ret' = [called |-> TRUE, endpoint |-> endpoint,
                           exc |-> NoException, returned |-> returned,
                           status |-> respond(endpoint, NoException, returned)]
    /\ UNCHANGED <<entityVars, validarVars, storeVars, loginVars,
                   authVars, permVars, userVars, searchVars,
                   writeVars, moreVars>>

NextHttp == Route

----------------------------------------------------------------------------
(* Calls of Permissao.can_access on arbitrary permissions *)

\* every Permissao the constructor accepts
Permissoes == { Permissao(r, a) : r \in RecursoPermissao, a \in AcaoPermissao }

NoPermCall ==
    [called |-> FALSE, held |-> Permissao("none", "none"),
     required |-> Permissao("none", "none"), result |-> FALSE]

\* held.can_access(required)
CallCanAccess ==
    /\ \E held \in Permissoes, required \in Permissoes :
         perm_call' = [called |-> TRUE, held |-> held, required |-> required,
                       result |-> can_access(held, required)]
    /\ UNCHANGED <<entityVars, validarVars, storeVars, loginVars,
                   authVars, userVars, httpVars, searchVars,
                   writeVars, moreVars>>

NextPermissao == CallCanAccess

----------------------------------------------------------------------------
(* Product search: ProdutoApplicationService.search_products over the rows
   of the product table.  Text is a sequence of ASCII codes, so that lower()
   and LIKE are computed; an absent optional text field is the empty text,
   which the truthiness tests of the code treat like None. *)

MaxSkip == 1        \* largest skip of a search request
MaxLimit == 2       \* largest limit of a search request

\* lower() on one character
lower_char(c) == IF c \in 65..90 THEN c + 32 ELSE c

\* str.lower() and SQL lower()
str_lower(s) == [i \in 1..Len(s) |-> lower_char(s[i])]

\* s LIKE '%t%' for a term without wildcard characters
like(s, t) == \E i \in 0..(Len(s) - Len(t)) : SubSeq(s, i + 1, i + Len(t)) = t

\* a < b in the binary ordering of the column nome
nome_lt(a, b) ==
    \E i \in 1..(Len(b)) :
        /\ i - 1 <= Len(a)
        /\ \A j \in 1..(i - 1) : a[j] = b[j]
        /\ (i > Len(a) \/ a[i] < b[i])

\* the rows of a query result before ORDER BY
RowSet(rows) == { rows[i] : i \in DOMAIN rows }

RECURSIVE order_by_nome(_)
order_by_nome(S) ==
    IF S = {} THEN <<>>
    ELSE LET first == CHOOSE r \in S : \A o \in S \ {r} : ~nome_lt(o.nome, r.nome)
         IN  <<first>> \o order_by_nome(S \ {first})

RECURSIVE order_by_created_at_desc(_)
order_by_created_at_desc(S) ==
    IF S = {} THEN <<>>
    ELSE LET first == CHOOSE r \in S : \A o \in S : o.created_at <= r.created_at
         IN  <<first>> \o order_by_created_at_desc(S \ {first})

\* OFFSET skip LIMIT limit of an ordered result
offset_limit(result, skip, limit) ==
    SubSeq(result, skip + 1, IF skip + limit < Len(result) THEN skip + limit
                             ELSE Len(result))

\* SqlAlchemyProdutoRepository.get_by_sku, as the list the service makes of it
get_by_sku(rows, sku) ==
    LET found == { r \in RowSet(rows) : r.sku = sku } IN
    IF found = {} THEN <<>> ELSE <<CHOOSE r \in found : TRUE>>

search_by_name(rows, name, skip, limit) ==
    LET search_term == str_lower(name) IN
    offset_limit(order_by_nome({ r \in RowSet(rows) :
                                   \/ like(str_lower(r.nome), search_term)
                                   \/ like(str_lower(r.descricao), search_term) }),
                 skip, limit)

get_by_category(rows, categoria, skip, limit) ==
    offset_limit(order_by_nome({ r \in RowSet(rows) : r.categoria = categoria }),
                 skip, limit)

get_active_products(rows, skip, limit) ==
    offset_limit(order_by_nome({ r \in RowSet(rows) : r.ativo = TRUE }), skip, limit)

get_all(rows, skip, limit) ==
    offset_limit(order_by_created_at_desc(RowSet(rows)), skip, limit)

\* the list comprehension [p for p in products if p.ativo == search_dto.ativo]
filter_ativo(products, ativo) ==
    LET keep(p) == p.ativo = (ativo = "true") IN SelectSeq(products, keep)

\* search_products without its additional filter
search_products_sem_filtro(rows, search_dto, skip, limit) ==
    LET source ==
            IF search_dto.sku # "" THEN "get_by_sku"
            ELSE IF search_dto.nome # <<>> THEN "search_by_name"
            ELSE IF search_dto.categoria # "" THEN "get_by_category"
            ELSE IF search_dto.ativo # "none" /\ search_dto.ativo = "true"
                 THEN "get_active_products"
            ELSE "get_all"
        products ==
            CASE source = "get_by_sku" -> get_by_sku(rows, search_dto.sku)
              [] source = "search_by_name" ->
                    search_by_name(rows, search_dto.nome, skip, limit)
              [] source = "get_by_category" ->
                    get_by_category(rows, search_dto.categoria, skip, limit)
              [] source = "get_active_products" -> get_active_products(rows, skip, limit)
              [] OTHER -> get_all(rows, skip, limit)
    IN  [source |-> source, produtos |-> products, total |-> Len(products),
         page |-> IF limit > 0 THEN (skip \div limit) + 1 ELSE 1,
         page_size |-> limit]

search_products(rows, search_dto, skip, limit) ==
    LET source ==
            IF search_dto.sku # "" THEN "get_by_sku"
            ELSE IF search_dto.nome # <<>> THEN "search_by_name"
            ELSE IF search_dto.categoria # "" THEN "get_by_category"
            ELSE IF search_dto.ativo # "none" /\ search_dto.ativo = "true"
                 THEN "get_active_products"
            ELSE "get_all"
        fetched ==
            CASE source = "get_by_sku" -> get_by_sku(rows, search_dto.sku)
              [] source = "search_by_name" ->
                    search_by_name(rows, search_dto.nome, skip, limit)
              [] source = "get_by_category" ->
                    get_by_category(rows, search_dto.categoria, skip, limit)
              [] source = "get_active_products" -> get_active_products(rows, skip, limit)
              [] OTHER -> get_all(rows, skip, limit)
        products ==
            IF search_dto.ativo # "none" THEN filter_ativo(fetched, search_dto.ativo)
            ELSE fetched
    IN  [source |-> source, produtos |-> products, total |-> Len(products),
         page |-> IF limit > 0 THEN (skip \div limit) + 1 ELSE 1,
         page_size |-> limit]

\* the products the requests create, in the order of their creation:
\*   sku B-2, nome "b", descricao "a", categoria c2
\*   sku A-1, nome "Ab", no descricao, categoria c1
CatalogInputs ==
    << [sku |-> "B-2", nome |-> <<98>>, descricao |-> <<97>>, categoria |-> "c2"],
       [sku |-> "A-1", nome |-> <<65, 98>>, descricao |-> <<>>, categoria |-> "c1"] >>

\* the bodies of POST /products/search
ProdutoSearchDTO ==
    [sku : {"", "A-1"}, nome : {<<>>, <<65>>},
     categoria : {"", "c1"}, ativo : {"none", "true", "false"}]

NoSearchDTO == [sku |-> "", nome |-> <<>>, categoria |-> "", ativo |-> "none"]

NoSearch ==
    [n |-> 0, dto |-> NoSearchDTO, skip |-> 0, limit |-> 1, source |-> "none",
     produtos |-> <<>>, total |-> 0, page |-> 1, page_size |-> 1]

\* create_product of the next product, whose SKU is not stored yet
CatalogCreate ==
    /\ Len(catalogo) < Len(CatalogInputs)
    /\ \E ativo \in BOOLEAN :
         LET c == CatalogInputs[Len(catalogo) + 1] IN
            /\ \A i \in DOMAIN catalogo : catalogo[i].sku # c.sku
            /\ catalogo' = Append(catalogo,
                   [id |-> Len(catalogo) + 1, sku |-> c.sku, nome |-> c.nome,
                    descricao |-> c.descricao, categoria |-> c.categoria,
                    unidade_medida |-> "UN", nivel_minimo |-> 0,
                    ativo |-> ativo, created_at |-> Len(catalogo) + 1])
    /\ UNCHANGED <<search_ret, entityVars, validarVars, storeVars, loginVars,
                   authVars, permVars, userVars, httpVars,
                   writeVars, moreVars>>

\* update_product with ativo set: activate() or deactivate()
CatalogSetAtivo ==
    /\ \E i \in DOMAIN catalogo, ativo \in BOOLEAN :
         /\ catalogo[i].ativo # ativo
         /\ catalogo' = [catalogo EXCEPT ![i].ativo = ativo]
    /\ UNCHANGED <<search_ret, entityVars, validarVars, storeVars, loginVars,
                   authVars, permVars, userVars, httpVars,
                   writeVars, moreVars>>

\* POST /products/search
Search ==
    /\ \E dto \in ProdutoSearchDTO, skip \in 0..MaxSkip, limit \in 1..MaxLimit :
         LET r == search_products(catalogo, dto, skip, limit) IN
         search_ret' = [n |-> 1 - search_ret.n, dto |-> dto, skip |-> skip,
                        limit |-> limit, source |-> r.source,
                        produtos |-> r.produtos, total |-> r.total,
                        page |-> r.page, page_size |-> r.page_size]
    /\ UNCHANGED <<catalogo, entityVars, validarVars, storeVars, loginVars,
                   authVars, permVars, userVars, httpVars,
                   writeVars, moreVars>>

NextSearch == CatalogCreate \/ CatalogSetAtivo \/ Search

----------------------------------------------------------------------------
(* The write operations of the application services, each as one call that *)
(* runs alone against the tables: what it raises or returns, the table it  *)
(* leaves and the commits and rollbacks of its session                      *)

MsgUserNotFound == "User not found"
MsgWrongPassword == "Current password is incorrect"
MsgSkuExists == "SKU already exists"
MsgBlankName == "Product name cannot be empty"
MsgBlankCategory == "Product category cannot be empty"

\* mutant: change_password returns without the commit
change_password_sem_commit(rows, user_id, change_password_dto, dbfail) ==
    LET user == usuario_get_by_id(rows, user_id) IN
    IF ~user.exists
    THEN Outcome(ValidationException, MsgUserNotFound, "raised", rows, FALSE, 0, 1)
    ELSE IF ~verify_password(user, change_password_dto.current_password)
    THEN Outcome(ValidationException, MsgWrongPassword, "raised", rows, FALSE, 0, 1)
    ELSE IF dbfail = "flush"
    THEN Outcome(DBAPIError, "", "raised", rows, FALSE, 0, 2)
    ELSE Outcome(NoException, "", "True",
                 [rows EXCEPT ![user_id].senha_hash =
                                 pwd_hash(change_password_dto.new_password)],
                 TRUE, 0, 0)

\* AuthApplicationService.change_password (the new password has the six
\* characters set_password asks for: ChangePasswordDTO validates min_length=6)
change_password(rows, user_id, change_password_dto, dbfail) ==
    LET user == usuario_get_by_id(rows, user_id) IN
    IF ~user.exists
    THEN Outcome(ValidationException, MsgUserNotFound, "raised", rows, FALSE, 0, 1)
    ELSE IF ~verify_password(user, change_password_dto.current_password)
    THEN Outcome(ValidationException, MsgWrongPassword, "raised", rows, FALSE, 0, 1)
    ELSE IF dbfail = "flush"
    THEN Outcome(DBAPIError, "", "raised", rows, FALSE, 0, 2)
    ELSE IF dbfail = "commit"
    THEN Outcome(DBAPIError, "", "raised", rows, TRUE, 1, 1)
    ELSE Outcome(NoException, "", "True",
                 [rows EXCEPT ![user_id].senha_hash =
                                 pwd_hash(change_password_dto.new_password)],
                 TRUE, 1, 0)

\* str.strip().upper() on the SKUs the model draws
sku_upper(codigo) == IF codigo = "a-1" THEN "A-1" ELSE codigo

\* SKU(codigo): trimmed, upper-cased and matched against [A-Z0-9-]{1,50}
SKU(codigo) ==
    IF sku_upper(codigo) \in {"A-1", "B-2"}
    THEN [exc |-> NoException, codigo |-> sku_upper(codigo)]
    ELSE [exc |-> ValidationException, codigo |-> "none"]

\* SqlAlchemyProdutoRepository.sku_exists: rows whose sku equals the string
sku_exists(rows, sku) == \E i \in DOMAIN rows : rows[i].sku = sku

\* not text.strip(): nothing but spaces
is_blank(text) == \A i \in DOMAIN text : text[i] = 32

\* SqlAlchemyProdutoRepository.get_by_id: the position of the row, 0 for None
produto_position(rows, id) ==
    IF \E i \in DOMAIN rows : rows[i].id = id
    THEN CHOOSE i \in DOMAIN rows : rows[i].id = id
    ELSE 0

\* ProdutoApplicationService.create_product; id is the uuid4 of the new product
create_product(rows, id, create_dto, dbfail) ==
    LET sku == SKU(create_dto.sku)
        unidade_medida == UnidadeMedida(create_dto.unidade_medida)
        row == [id |-> id, sku |-> sku.codigo, nome |-> create_dto.nome,
                descricao |-> <<>>, categoria |-> create_dto.categoria,
                unidade_medida |-> unidade_medida.codigo, nivel_minimo |-> 0,
                ativo |-> create_dto.ativo, created_at |-> id]
    IN  IF sku_exists(rows, create_dto.sku)
        THEN Outcome(BusinessRuleException, MsgSkuExists, "raised", rows, FALSE, 0, 1)
        ELSE IF sku.exc # NoException
        THEN Outcome(sku.exc, "", "raised", rows, FALSE, 0, 1)
        ELSE IF unidade_medida.exc # NoException
        THEN Outcome(unidade_medida.exc, "", "raised", rows, FALSE, 0, 1)
        ELSE IF is_blank(create_dto.nome)
        THEN Outcome(ValidationException, MsgBlankName, "raised", rows, FALSE, 0, 1)
        ELSE IF create_dto.categoria = " "
        THEN Outcome(ValidationException, MsgBlankCategory, "raised", rows,
                     FALSE, 0, 1)
        ELSE IF sku_exists(rows, sku.codigo)
        THEN Outcome(IntegrityError, "", "raised", rows, FALSE, 0, 2)
        ELSE IF dbfail = "flush"
        THEN Outcome(DBAPIError, "", "raised", rows, FALSE, 0, 2)
        ELSE IF dbfail = "commit"
        THEN Outcome(DBAPIError, "", "raised", rows, TRUE, 1, 1)
        ELSE Outcome(NoException, "", "product", Append(rows, row), TRUE, 1, 0)

\* ProdutoApplicationService.update_product; an empty nome or categoria and
\* an ativo "none" of the DTO are None
update_product(rows, product_id, update_dto, dbfail) ==
    LET i == produto_position(rows, product_id)
        with_nome == IF update_dto.nome # <<>>
                     THEN [rows[i] EXCEPT !.nome = update_dto.nome]
                     ELSE rows[i]
        with_categoria == IF update_dto.categoria # ""
                          THEN [with_nome EXCEPT !.categoria = update_dto.categoria]
                          ELSE with_nome
        row == IF update_dto.ativo = "none"
               THEN with_categoria
               ELSE [with_categoria EXCEPT !.ativo = (update_dto.ativo = "true")]
    IN  IF i = 0
        THEN Outcome(NoException, "", "None", rows, FALSE, 0, 0)
        ELSE IF update_dto.nome # <<>> /\ is_blank(update_dto.nome)
        THEN Outcome(ValidationException, MsgBlankName, "raised", rows, FALSE, 0, 1)
        ELSE IF update_dto.categoria = " "
        THEN Outcome(ValidationException, MsgBlankCategory, "raised", rows,
                     FALSE, 0, 1)
        ELSE IF dbfail = "flush"
        THEN Outcome(DBAPIError, "", "raised", rows, FALSE, 0, 2)
        ELSE IF dbfail = "commit"
        THEN Outcome(DBAPIError, "", "raised", rows, TRUE, 1, 1)
        ELSE Outcome(NoException, "", "product", [rows EXCEPT ![i] = row],
                     TRUE, 1, 0)

\* ProdutoApplicationService.delete_product
delete_product(rows, product_id, dbfail) ==
    LET i == produto_position(rows, product_id)
        keep(r) == r.id # product_id
    IN  IF i = 0
        THEN Outcome(NoException, "", "False", rows, FALSE, 0, 0)
        ELSE IF dbfail = "flush"
        THEN Outcome(DBAPIError, "", "raised", rows, FALSE, 0, 2)
        ELSE IF dbfail = "commit"
        THEN Outcome(DBAPIError, "", "raised", rows, TRUE, 1, 1)
        ELSE Outcome(NoException, "", "True", SelectSeq(rows, keep), TRUE, 1, 0)

\* EstoqueApplicationService.create_inventory, when no other request runs;
\* id is the uuid4 of the new record
create_inventory(prods, rows, id, create_dto, t, dbfail) ==
    LET product == prods[create_dto.produto_id]
        existing == get_by_produto_id(rows, create_dto.produto_id)
        rec == [IdleSession EXCEPT !.op = "create_inventory", !.dto = create_dto,
                                   !.product = product]
        c == CreateLocal(rec, id, t)
    IN  IF ~product.exists
        THEN Outcome(BusinessRuleException, MsgProductNotFound, "raised", rows,
                     FALSE, 0, 1)
        ELSE IF existing.exc # NoException
        THEN Outcome(existing.exc, "", "raised", rows, FALSE, 0, 1)
        ELSE IF existing.ent.exists
        THEN Outcome(BusinessRuleException, MsgInventoryExists, "raised", rows,
                     FALSE, 0, 1)
        ELSE IF c.exc # NoException
        THEN Outcome(c.exc, c.msg, "raised", rows, FALSE, 0, 1)
        ELSE IF dbfail = "flush"
        THEN Outcome(DBAPIError, "", "raised", rows, FALSE, 0, 2)
        ELSE IF dbfail = "commit"
        THEN Outcome(DBAPIError, "", "raised", rows, TRUE, 1, 1)
        ELSE Outcome(NoException, "", "inventory",
                     rows \cup {_entity_to_model(c.ent)}, TRUE, 1, 0)

\* add_stock, remove_stock and adjust_stock share their shape: the record,
\* the product, the entity's change, the repository's update and the commit
stock_movement(op, prods, rows, dto, t, dbfail) ==
    LET inventory == get_by_produto_id(rows, dto.produto_id)
        product == prods[dto.produto_id]
        rec == [IdleSession EXCEPT !.op = op, !.dto = dto,
                                   !.inventory = inventory.ent,
                                   !.product = product]
        m == MovLocal(rec, t)
        pending == [kind |-> "update",
                    row |-> CHOOSE r \in rows : r.id = inventory.ent.id,
                    loaded |-> inventory.ent, ent |-> m.ent]
    IN  IF inventory.exc # NoException
        THEN Outcome(inventory.exc, "", "raised", rows, FALSE, 0, 1)
        ELSE IF ~inventory.ent.exists
        THEN Outcome(BusinessRuleException, MsgInventoryNotFound, "raised", rows,
                     FALSE, 0, 1)
        ELSE IF ~product.exists
        THEN Outcome(BusinessRuleException, MsgProductNotFound, "raised", rows,
                     FALSE, 0, 1)
        ELSE IF m.exc # NoException
        THEN Outcome(m.exc, m.msg, "raised", rows, FALSE, 0, 1)
        ELSE IF dbfail = "flush"
        THEN Outcome(DBAPIError, "", "raised", rows, FALSE, 0, 2)
        ELSE IF dbfail = "commit"
        THEN Outcome(DBAPIError, "", "raised", rows, TRUE, 1, 1)
        ELSE Outcome(NoException, "", "inventory", Committed(rows, pending),
                     TRUE, 1, 0)

add_stock(prods, rows, movimento_dto, t, dbfail) ==
    stock_movement("add_stock", prods, rows, movimento_dto, t, dbfail)

remove_stock(prods, rows, movimento_dto, t, dbfail) ==
    stock_movement("remove_stock", prods, rows, movimento_dto, t, dbfail)

adjust_stock(prods, rows, ajuste_dto, t, dbfail) ==
    stock_movement("adjust_stock", prods, rows, ajuste_dto, t, dbfail)

ChangePasswordDTO == [current_password : Senhas, new_password : Senhas]

ProdutoCreateDTO ==
    [sku : {"A-1", "a-1", "?"}, nome : {<<98>>, <<32>>}, categoria : {"c1", " "},
     unidade_medida : {"KG", "XX"}, ativo : BOOLEAN]

ProdutoUpdateDTO ==
    [nome : {<<>>, <<99>>, <<32>>}, categoria : {"", "c2", " "},
     ativo : {"none", "true", "false"}]

\* the product table with no product, or with the product of SKU A-1
WriteCatalogos ==
    {<<>>} \cup
    { << [id |-> 1, sku |-> "A-1", nome |-> <<65, 98>>, descricao |-> <<>>,
          categoria |-> "c1", unidade_medida |-> "KG", nivel_minimo |-> 0,
          ativo |-> a, created_at |-> 1] >> : a \in BOOLEAN }

\* the user table with no user, or with one user
WriteUsuarios == {[u \in UserIds |-> NoUsuario]} \cup AuthUsuarios

\* the tables of the inventory context: the product absent or stored, with
\* no record or with a record create_inventory accepts
WriteProdutos ==
    {[p \in ProdIds |-> NoProduto]} \cup
    { [p \in ProdIds |-> Produto(p, "KG", a)] : a \in BOOLEAN }

WriteEstoques ==
    {{}} \cup { {row} : row \in { r \in CreatedRows :
                                   r.quantidade_reservada <= r.quantidade_atual } }

NoWrite ==
    [op |-> "none", exc |-> NoException, msg |-> "", returned |-> "none",
     changed |-> FALSE, flushed |-> FALSE, commits |-> 0, rollbacks |-> 0]

\* the record of a call: changed tells whether the call left another table
WriteCall(op, r, before) ==
    [op |-> op, exc |-> r.exc, msg |-> r.msg, returned |-> r.returned,
     changed |-> (r.rows # before), flushed |-> r.flushed,
     commits |-> r.commits, rollbacks |-> r.rollbacks]

CallCreateUser ==
    /\ write_ret = NoWrite
    /\ \E u \in UserIds, dto \in UsuarioCreateDTO, dbfail \in DbFailures :
         /\ usuarios[u] = NoUsuario
         /\ LET r == create_user(usuarios, u, dto, dbfail) IN
            /\ usuarios' = r.rows
            /\ write_ret' = WriteCall("create_user", r, usuarios)
    /\ UNCHANGED <<login_ret, catalogo, search_ret, entityVars, validarVars,
                   storeVars, authVars, permVars, userVars, httpVars, moreVars>>

CallUpdateUser ==
    /\ write_ret = NoWrite
    /\ \E u \in UserIds, dto \in UsuarioUpdateDTO, dbfail \in DbFailures :
         LET r == update_user(usuarios, u, dto, dbfail) IN
         /\ usuarios' = r.rows
         /\ write_ret' = WriteCall("update_user", r, usuarios)
    /\ UNCHANGED <<login_ret, catalogo, search_ret, entityVars, validarVars,
                   storeVars, authVars, permVars, userVars, httpVars, moreVars>>

CallDeleteUser ==
    /\ write_ret = NoWrite
    /\ \E u \in UserIds, dbfail \in DbFailures :
         LET r == delete_user(usuarios, u, dbfail) IN
         /\ usuarios' = r.rows
         /\ write_ret' = WriteCall("delete_user", r, usuarios)
    /\ UNCHANGED <<login_ret, catalogo, search_ret, entityVars, validarVars,
                   storeVars, authVars, permVars, userVars, httpVars, moreVars>>

CallChangePassword ==
    /\ write_ret = NoWrite
    /\ \E u \in UserIds, dto \in ChangePasswordDTO, dbfail \in DbFailures :
         LET r == change_password(usuarios, u, dto, dbfail) IN
         /\ usuarios' = r.rows
         /\ write_ret' = WriteCall("change_password", r, usuarios)
    /\ UNCHANGED <<login_ret, catalogo, search_ret, entityVars, validarVars,
                   storeVars, authVars, permVars, userVars, httpVars, moreVars>>

CallCreateProduct ==
    /\ write_ret = NoWrite
    /\ \E dto \in ProdutoCreateDTO, dbfail \in DbFailures :
         LET r == create_product(catalogo, Len(catalogo) + 1, dto, dbfail) IN
         /\ catalogo' = r.rows
         /\ write_ret' = WriteCall("create_product", r, catalogo)
    /\ UNCHANGED <<search_ret, entityVars, validarVars, storeVars, loginVars,
                   authVars, permVars, userVars, httpVars, moreVars>>

CallUpdateProduct ==
    /\ write_ret = NoWrite
    /\ \E id \in 1 .. 2, dto \in ProdutoUpdateDTO, dbfail \in DbFailures :
         LET r == update_product(catalogo, id, dto, dbfail) IN
         /\ catalogo' = r.rows
         /\ write_ret' = WriteCall("update_product", r, catalogo)
    /\ UNCHANGED <<search_ret, entityVars, validarVars, storeVars, loginVars,
                   authVars, permVars, userVars, httpVars, moreVars>>

CallDeleteProduct ==
    /\ write_ret = NoWrite
    /\ \E id \in 1 .. 2, dbfail \in DbFailures :
         LET r == delete_product(catalogo, id, dbfail) IN
         /\ catalogo' = r.rows
         /\ write_ret' = WriteCall("delete_product", r, catalogo)
    /\ UNCHANGED <<search_ret, entityVars, validarVars, storeVars, loginVars,
                   authVars, permVars, userVars, httpVars, moreVars>>

CallCreateInventory ==
    /\ write_ret = NoWrite
    /\ \E dto \in EstoqueCreateDTO, dbfail \in DbFailures :
         LET r == create_inventory(produtos, estoques, NewId, dto, now, dbfail) IN
         /\ estoques' = r.rows
         /\ write_ret' = WriteCall("create_inventory", r, estoques)
    /\ UNCHANGED <<produtos, sess, catalogo, search_ret, entityVars, validarVars,
                   loginVars, authVars, permVars, userVars, httpVars, moreVars>>

CallAddStock ==
    /\ write_ret = NoWrite
    /\ \E dto \in EstoqueMovimentacaoDTO, dbfail \in DbFailures :
         LET r == add_stock(produtos, estoques, dto, now, dbfail) IN
         /\ estoques' = r.rows
         /\ write_ret' = WriteCall("add_stock", r, estoques)
    /\ UNCHANGED <<produtos, sess, catalogo, search_ret, entityVars, validarVars,
                   loginVars, authVars, permVars, userVars, httpVars, moreVars>>

CallRemoveStock ==
    /\ write_ret = NoWrite
    /\ \E dto \in EstoqueMovimentacaoDTO, dbfail \in DbFailures :
         LET r == remove_stock(produtos, estoques, dto, now, dbfail) IN
         /\ estoques' = r.rows
         /\ write_ret' = WriteCall("remove_stock", r, estoques)
    /\ UNCHANGED <<produtos, sess, catalogo, search_ret, entityVars, validarVars,
                   loginVars, authVars, permVars, userVars, httpVars, moreVars>>

CallAdjustStock ==
    /\ write_ret = NoWrite
    /\ \E dto \in EstoqueAjusteDTO, dbfail \in DbFailures :
         LET r == adjust_stock(produtos, estoques, dto, now, dbfail) IN
         /\ estoques' = r.rows
         /\ write_ret' = WriteCall("adjust_stock", r, estoques)
    /\ UNCHANGED <<produtos, sess, catalogo, search_ret, entityVars, validarVars,
                   loginVars, authVars, permVars, userVars, httpVars, moreVars>>

NextWrite ==
    \/ CallCreateUser
    \/ CallUpdateUser
    \/ CallDeleteUser
    \/ CallChangePassword
    \/ CallCreateProduct
    \/ CallUpdateProduct
    \/ CallDeleteProduct
    \/ CallCreateInventory
    \/ CallAddStock
    \/ CallRemoveStock
    \/ CallAdjustStock

----------------------------------------------------------------------------
(* The product service and the inventory service on one database: the      *)
(* inventory service reads the rows the product service writes             *)

\* the product the inventory requests name is the first product created
produto_key(id) == IF id = 1 THEN "p1" ELSE "none"

\* SqlAlchemyProdutoRepository.get_by_id as the inventory service uses it
produtos_of(rows) ==
    [p \in ProdIds |->
        IF \E i \in DOMAIN rows : produto_key(rows[i].id) = p
        THEN LET row == rows[CHOOSE i \in DOMAIN rows : produto_key(rows[i].id) = p]
             IN  [exists |-> TRUE, id |-> p, ativo |-> row.ativo,
                  unidade_medida |-> row.unidade_medida]
        ELSE NoProduto]

\* POST /produtos
UnitCreateProduct ==
    /\ catalogo = <<>>
    /\ \E dto \in ProdutoCreateDTO, dbfail \in DbFailures :
         LET r == create_product(catalogo, Len(catalogo) + 1, dto, dbfail) IN
         /\ catalogo' = r.rows
         /\ produtos' = produtos_of(r.rows)
         /\ write_ret' = WriteCall("create_product", r, catalogo)
    /\ UNCHANGED <<estoques, sess, search_ret, entityVars, validarVars, loginVars,
                   authVars, permVars, userVars, httpVars, moreVars>>

\* PUT /produtos/{id}
UnitUpdateProduct ==
    /\ \E id \in 1 .. 2, dto \in ProdutoUpdateDTO, dbfail \in DbFailures :
         LET r == update_product(catalogo, id, dto, dbfail) IN
         /\ catalogo' = r.rows
         /\ produtos' = produtos_of(r.rows)
         /\ write_ret' = WriteCall("update_product", r, catalogo)
    /\ UNCHANGED <<estoques, sess, search_ret, entityVars, validarVars, loginVars,
                   authVars, permVars, userVars, httpVars, moreVars>>

\* POST /estoque
UnitCreateInventory ==
    /\ \E dto \in EstoqueCreateDTO, dbfail \in DbFailures :
         LET r == create_inventory(produtos, estoques, NewId, dto, now, dbfail) IN
         /\ estoques' = r.rows
         /\ write_ret' = WriteCall("create_inventory", r, estoques)
    /\ UNCHANGED <<produtos, sess, catalogo, search_ret, entityVars, validarVars,
                   loginVars, authVars, permVars, userVars, httpVars, moreVars>>

\* POST /estoque/add-stock, remove-stock and adjust-stock; the quantities
\* explored end at MaxStoreQty
UnitMovement(op) ==
    /\ \E dto \in IF op = "adjust_stock" THEN EstoqueAjusteDTO
                  ELSE EstoqueMovimentacaoDTO,
          dbfail \in DbFailures :
         LET r == stock_movement(op, produtos, estoques, dto, now, dbfail) IN
         /\ \A row \in r.rows : row.quantidade_atual <= MaxStoreQty
         /\ estoques' = r.rows
         /\ write_ret' = WriteCall(op, r, estoques)
    /\ UNCHANGED <<produtos, sess, catalogo, search_ret, entityVars, validarVars,
                   loginVars, authVars, permVars, userVars, httpVars, moreVars>>

UnitAddStock == UnitMovement("add_stock")
UnitRemoveStock == UnitMovement("remove_stock")
UnitAdjustStock == UnitMovement("adjust_stock")

NextUnidade ==
    \/ UnitCreateProduct
    \/ UnitUpdateProduct
    \/ UnitCreateInventory
    \/ UnitAddStock
    \/ UnitRemoveStock
    \/ UnitAdjustStock

----------------------------------------------------------------------------
(* PUT /usuarios/{id} with a name, an email or both *)

\* nome is validated min_length=1 by the DTO: a space passes
UsuarioNomeEmailDTO ==
    [nome : {"none", "Novo", " "}, email : EmailInputs \cup {"none"},
     set_permissoes : {FALSE}, permissoes : {<<>>}, ativo : {"none"}]

\* user "u1" stored, user "u2" stored under another address or not at all
UpdateUsuarios ==
    { [u \in UserIds |->
         IF u = "u1" \/ second
         THEN [exists |-> TRUE, id |-> u,
               email |-> IF u = "u1" THEN "a@x.com" ELSE "b@x.com",
               nome |-> "Nome", senha_hash |-> pwd_hash("senha-1"),
               permissoes |-> <<>>, ativo |-> TRUE]
         ELSE NoUsuario] : second \in BOOLEAN }

UpdateNomeEmailCall(u) ==
    /\ \E dto \in UsuarioNomeEmailDTO, dbfail \in DbFailures :
         LET r == update_user(usuarios, u, dto, dbfail) IN
         /\ usuarios' = r.rows
         /\ user_ret' = UserCall("update_user", u, dto.email, r)
    /\ UNCHANGED <<login_ret, entityVars, validarVars, storeVars,
                   authVars, permVars, httpVars, searchVars,
                   writeVars, moreVars>>

NextUpdateUser == \E u \in UserIds : UpdateNomeEmailCall(u)

----------------------------------------------------------------------------
(* Requests with an issued token against a user that changes *)

\* PUT /usuarios/{id}: update_user changing the permissions or the status
TokenUpdateDTO ==
    [nome : {"none"}, email : {"none"}, set_permissoes : BOOLEAN,
     permissoes : {<<>>, <<"estoque:write">>}, ativo : {"none", "true", "false"}]

UpdateUserStored ==
    /\ \E u \in UserIds, dto \in TokenUpdateDTO :
         LET r == update_user(usuarios, u, dto, "none") IN
         /\ r.rows # usuarios
         /\ usuarios' = r.rows
    /\ UNCHANGED <<login_ret, entityVars, validarVars, callVars, storeVars>>

\* a request presenting the token the last successful login returned
AuthorizeWithToken ==
    /\ login_ret.exc = NoException
    /\ login_ret.response # NoResponse
    /\ \E permission \in RequiredPermissions :
         LET token == login_ret.response.access_token
             current == get_current_user(usuarios, token, now)
             checked == check_permission(get_current_active_user(current), permission)
         IN  auth_ret' = [called |-> TRUE, token |-> token, permission |-> permission,
                          current |-> current, checked |-> checked,
                          handler_ran |-> (checked.exc = NoHTTPException),
                          at |-> now, before |-> usuarios]
    /\ UNCHANGED <<entityVars, validarVars, storeVars, loginVars,
                   permVars, userVars, httpVars, searchVars,
                   writeVars, moreVars>>

\* the client logs in once and keeps the token
LoginOnce == login_ret = NoLogin /\ Login

NextToken ==
    \/ LoginOnce
    \/ UpdateUserStored
    \/ DeleteUser
    \/ AuthorizeWithToken
    \/ Tick

----------------------------------------------------------------------------
(* Session scope: init_db and get_async_session of                         *)
(* src/shared/infrastructure/database/connection.py, get_db of             *)
(* src/api/dependencies.py, and the consumers that drive the generator     *)

MaxSessions == 3    \* sessions async_session_factory() creates in a behaviour

ScopeIds == {"q1", "q2"}

RuntimeError == "RuntimeError"
MsgDbNotInitialized == "Database not initialized"

\* what the code inside a scope raises; asyncio.CancelledError derives from
\* BaseException, the others from Exception
ScopeRaises == {"HTTPException", "BusinessRuleException", "CancelledError"}

\* the clause "except Exception" catches exc
is_exception(exc) == exc # "CancelledError"

\* who drives the generator: get_db (and the seed script) iterate it with
\* "async for session in get_async_session()"; a consumer driving
\* get_async_session itself throws the scope's exception into it
Consumers == {"get_db", "get_async_session"}

\* a scope: the position of its generators, the session handed out (0 for
\* none), what the scope raised and what was called on the session
NoScope ==
    [pc |-> "idle", via |-> "none", session |-> 0, raised |-> NoException,
     msg |-> "", rolled_back |-> FALSE, closed |-> FALSE]

\* init_db: the lifespan of the application runs it once, at startup
InitDb ==
    /\ ~async_session_factory
    /\ async_session_factory' = TRUE
    /\ UNCHANGED <<scope, created, produtoVars, entityVars, validarVars,
                   storeVars, loginVars, authVars, permVars, userVars,
                   httpVars, searchVars, writeVars>>

\* the first step of get_async_session, reached through consumer via:
\* RuntimeError without a factory, else a new session from the factory,
\* yielded to the scope
EnterScope(q, via) ==
    /\ scope[q].pc = "idle"
    /\ created < MaxSessions
    /\ IF ~async_session_factory
       THEN /\ scope' = [scope EXCEPT ![q] =
                   [NoScope EXCEPT !.pc = "failed", !.via = via,
                                   !.raised = RuntimeError,
                                   !.msg = MsgDbNotInitialized]]
            /\ UNCHANGED created
       ELSE /\ created' = created + 1
            /\ scope' = [scope EXCEPT ![q] =
                   [NoScope EXCEPT !.pc = "in_scope", !.via = via,
                                   !.session = created + 1]]
    /\ UNCHANGED <<async_session_factory, produtoVars, entityVars, validarVars,
                   storeVars, loginVars, authVars, permVars, userVars,
                   httpVars, searchVars, writeVars>>

\* get_async_session when the scope raises exc. Thrown into the generator at
\* its yield, exc runs "except Exception: rollback; raise" and the finally
\* clause closes the session. Under "async for" the exception is raised at
\* the yield of get_db, in the body of the loop: it ends get_db and leaves
\* get_async_session suspended at its own yield
get_async_session_raise(via, exc) ==
    IF via = "get_async_session"
    THEN [pc |-> "exited", rolled_back |-> is_exception(exc), closed |-> TRUE]
    ELSE [pc |-> "abandoned", rolled_back |-> FALSE, closed |-> FALSE]

\* the scope completes: the generator is resumed after its yield, the
\* finally clause closes the session
ExitScope(q) ==
    /\ scope[q].pc = "in_scope"
    /\ scope' = [scope EXCEPT ![q].pc = "exited", ![q].closed = TRUE]
    /\ UNCHANGED <<async_session_factory, created, produtoVars, entityVars,
                   validarVars, storeVars, loginVars, authVars, permVars,
                   userVars, httpVars, searchVars, writeVars>>

\* the scope raises exc, which propagates to the caller of the scope
RaiseInScope(q, exc) ==
    /\ scope[q].pc = "in_scope"
    /\ LET r == get_async_session_raise(scope[q].via, exc) IN
       scope' = [scope EXCEPT ![q].pc = r.pc, ![q].raised = exc,
                              ![q].rolled_back = r.rolled_back,
                              ![q].closed = r.closed]
    /\ UNCHANGED <<async_session_factory, created, produtoVars, entityVars,
                   validarVars, storeVars, loginVars, authVars, permVars,
                   userVars, httpVars, searchVars, writeVars>>

\* the event loop finalizes the abandoned generator: aclose() raises
\* GeneratorExit at its yield, which "except Exception" does not catch; the
\* finally clause closes the session
FinalizeGenerator(q) ==
    /\ scope[q].pc = "abandoned"
    /\ scope' = [scope EXCEPT ![q].pc = "exited", ![q].closed = TRUE]
    /\ UNCHANGED <<async_session_factory, created, produtoVars, entityVars,
                   validarVars, storeVars, loginVars, authVars, permVars,
                   userVars, httpVars, searchVars, writeVars>>

\* the request is over; the next request of this client starts a new scope
LeaveScope(q) ==
    /\ scope[q].pc \in {"exited", "failed"}
    /\ scope' = [scope EXCEPT ![q] = NoScope]
    /\ UNCHANGED <<async_session_factory, created, produtoVars, entityVars,
                   validarVars, storeVars, loginVars, authVars, permVars,
                   userVars, httpVars, searchVars, writeVars>>

NextScope ==
    \/ InitDb
    \/ \E q \in ScopeIds, via \in Consumers : EnterScope(q, via)
    \/ \E q \in ScopeIds : ExitScope(q)
    \/ \E q \in ScopeIds, exc \in ScopeRaises : RaiseInScope(q, exc)
    \/ \E q \in ScopeIds : FinalizeGenerator(q)
    \/ \E q \in ScopeIds : LeaveScope(q)

----------------------------------------------------------------------------
(* Produto aggregate: src/produto/domain/entities/produto.py *)

\* str.strip() on a text of character codes; 32 is the space
RECURSIVE lstrip(_)
lstrip(text) ==
    IF text # <<>> /\ Head(text) = 32 THEN lstrip(Tail(text)) ELSE text

RECURSIVE rstrip(_)
rstrip(text) ==
    IF text # <<>> /\ text[Len(text)] = 32
    THEN rstrip(SubSeq(text, 1, Len(text) - 1))
    ELSE text

strip(text) == rstrip(lstrip(text))

\* an Optional[str] argument: None, or a text
None == [given |-> FALSE, text |-> <<>>]
Some(text) == [given |-> TRUE, text |-> text]

NoAggregate ==
    [exists |-> FALSE, nome |-> <<>>, descricao |-> <<>>, categoria |-> <<>>,
     updated_at |-> 0]

\* Produto.__init__ on nome, descricao and categoria; updated_at is None (-1)
\* until mark_as_updated
Produto_init(nome, descricao, categoria) ==
    IF is_blank(nome)
    THEN [exc |-> ValidationException, msg |-> MsgBlankName, self |-> NoAggregate]
    ELSE IF is_blank(categoria)
    THEN [exc |-> ValidationException, msg |-> MsgBlankCategory,
          self |-> NoAggregate]
    ELSE [exc |-> NoException, msg |-> "",
          self |-> [exists |-> TRUE, nome |-> strip(nome),
                    descricao |-> strip(descricao),
                    categoria |-> strip(categoria), updated_at |-> -1]]

\* Produto.update_info at time t: nome, then descricao, then categoria, each
\* assigned (with mark_as_updated) as soon as it is checked
update_info(self, nome, descricao, categoria, t) ==
    LET with_nome ==
            IF nome.given
            THEN [self EXCEPT !.nome = strip(nome.text), !.updated_at = t]
            ELSE self
        with_descricao ==
            IF descricao.given
            THEN [with_nome EXCEPT !.descricao = strip(descricao.text),
                                   !.updated_at = t]
            ELSE with_nome
        with_categoria ==
            IF categoria.given
            THEN [with_descricao EXCEPT !.categoria = strip(categoria.text),
                                        !.updated_at = t]
            ELSE with_descricao
    IN  IF nome.given /\ is_blank(nome.text)
        THEN [exc |-> ValidationException, msg |-> MsgBlankName, self |-> self]
        ELSE IF categoria.given /\ is_blank(categoria.text)
        THEN [exc |-> ValidationException, msg |-> MsgBlankCategory,
              self |-> with_descricao]
        ELSE [exc |-> NoException, msg |-> "", self |-> with_categoria]

\* texts the model draws: empty, a space, a letter, a padded letter
Texts == {<<>>, <<32>>, <<97>>, <<32, 98>>}
OptionalTexts == {None} \cup {Some(text) : text \in Texts}

NoUpdate ==
    [op |-> "none", nome |-> None, descricao |-> None, categoria |-> None,
     exc |-> NoException, msg |-> "", pre |-> NoAggregate, at |-> 0]

ConstructProduto(nome, descricao, categoria) ==
    /\ ~aggregate.exists
    /\ LET r == Produto_init(nome, descricao, categoria) IN
       /\ aggregate' = r.self
       /\ update_ret' = [NoUpdate EXCEPT !.op = "__init__", !.nome = Some(nome),
                                         !.descricao = Some(descricao),
                                         !.categoria = Some(categoria),
                                         !.exc = r.exc, !.msg = r.msg,
                                         !.at = now]
    /\ UNCHANGED <<scopeVars, entityVars, validarVars, storeVars, loginVars,
                   authVars, permVars, userVars, httpVars, searchVars,
                   writeVars>>

CallUpdateInfo(nome, descricao, categoria) ==
    /\ aggregate.exists
    /\ LET r == update_info(aggregate, nome, descricao, categoria, now) IN
       /\ aggregate' = r.self
       /\ update_ret' = [op |-> "update_info", nome |-> nome,
                         descricao |-> descricao, categoria |-> categoria,
                         exc |-> r.exc, msg |-> r.msg, pre |-> aggregate,
                         at |-> now]
    /\ UNCHANGED <<scopeVars, entityVars, validarVars, storeVars, loginVars,
                   authVars, permVars, userVars, httpVars, searchVars,
                   writeVars>>

NextProduto ==
    \/ \E nome \in Texts, descricao \in Texts, categoria \in Texts :
           ConstructProduto(nome, descricao, categoria)
    \/ \E nome \in OptionalTexts, descricao \in OptionalTexts,
          categoria \in OptionalTexts :
           CallUpdateInfo(nome, descricao, categoria)
    \/ Tick

----------------------------------------------------------------------------
(* Specifications *)

InitEntityVars == estoque = NoEstoque /\ now = 0 /\ last = NoCall
InitValidarVars == vcall = NoVCall /\ vret = NoVRet
InitStoreVars ==
    /\ produtos = [p \in ProdIds |-> NoProduto]
    /\ estoques = {}
    /\ sess = [s \in Sessions |-> IdleSession]
InitLoginVars == usuarios = [u \in UserIds |-> NoUsuario] /\ login_ret = NoLogin
InitScopeVars ==
    /\ async_session_factory = FALSE
    /\ scope = [q \in ScopeIds |-> NoScope]
    /\ created = 0
InitProdutoVars == aggregate = NoAggregate /\ update_ret = NoUpdate
InitMoreVars == InitScopeVars /\ InitProdutoVars
InitCallVars ==
    /\ auth_ret = NoAuth
    /\ perm_call = NoPermCall
    /\ user_ret = NoUserCall
    /\ http_ret = NoHttpCall
    /\ catalogo = <<>>
    /\ search_ret = NoSearch
    /\ write_ret = NoWrite
    /\ InitMoreVars

\* one EstoqueProduto object
InitEntity ==
    InitEntityVars /\ InitValidarVars /\ InitStoreVars /\ InitLoginVars /\ InitCallVars
SpecEntity == InitEntity /\ [][NextEntity]_vars

\* one call of the domain service on arbitrary arguments
InitValidar ==
    /\ vcall \in ValidarCalls
    /\ vret = NoVRet
    /\ InitEntityVars /\ InitStoreVars /\ InitLoginVars /\ InitCallVars
SpecValidar == InitValidar /\ [][NextValidar]_vars

\* concurrent requests on the inventory application service
InitStore ==
    InitEntityVars /\ InitValidarVars /\ InitStoreVars /\ InitLoginVars /\ InitCallVars
SpecStore == InitStore /\ [][NextStore]_vars

\* login requests against a changing user table
InitLogin ==
    InitEntityVars /\ InitValidarVars /\ InitStoreVars /\ InitLoginVars /\ InitCallVars
SpecLogin == InitLogin /\ [][NextLogin]_vars

\* requests on protected endpoints against a changing user table
InitAuth ==
    /\ usuarios \in AuthUsuarios
    /\ login_ret = NoLogin
    /\ InitEntityVars /\ InitValidarVars /\ InitStoreVars /\ InitCallVars
SpecAuth == InitAuth /\ [][NextAuth]_vars

\* a login, changes of the stored user, and requests with the token issued
InitToken ==
    /\ usuarios \in {rows \in AuthUsuarios : rows["u1"].ativo}
    /\ login_ret = NoLogin
    /\ InitEntityVars /\ InitValidarVars /\ InitStoreVars /\ InitCallVars
SpecToken == InitToken /\ [][NextToken]_vars

\* calls of Permissao.can_access
InitPermissao ==
    InitEntityVars /\ InitValidarVars /\ InitStoreVars /\ InitLoginVars /\ InitCallVars
SpecPermissao == InitPermissao /\ [][NextPermissao]_vars

\* calls on the user application service
InitUsuario ==
    InitEntityVars /\ InitValidarVars /\ InitStoreVars /\ InitLoginVars /\ InitCallVars
SpecUsuario == InitUsuario /\ [][NextUsuario]_vars

\* requests through the routers
InitHttp ==
    InitEntityVars /\ InitValidarVars /\ InitStoreVars /\ InitLoginVars /\ InitCallVars
SpecHttp == InitHttp /\ [][NextHttp]_vars

\* runs of the seed script
InitSeed ==
    InitEntityVars /\ InitValidarVars /\ InitStoreVars /\ InitLoginVars /\ InitCallVars
SpecSeed == InitSeed /\ [][NextSeed]_vars

InitSearch ==
    InitEntityVars /\ InitValidarVars /\ InitStoreVars /\ InitLoginVars /\ InitCallVars
SpecSearch == InitSearch /\ [][NextSearch]_vars

\* a product with its inventory record, as create_inventory accepts it
InitMovimentos ==
    /\ InitEntityVars /\ InitValidarVars /\ InitLoginVars /\ InitCallVars
    /\ \E a \in BOOLEAN : produtos = [p \in ProdIds |-> Produto(p, "KG", a)]
    /\ \E row \in CreatedRows :
          /\ row.quantidade_reservada <= row.quantidade_atual
          /\ estoques = {row}
    /\ sess = [s \in Sessions |-> IdleSession]
SpecMovimentos == InitMovimentos /\ [][NextMovimentos]_vars

\* an active product whose record holds the largest quantity explored
InitRace ==
    /\ InitEntityVars /\ InitValidarVars /\ InitLoginVars /\ InitCallVars
    /\ produtos = [p \in ProdIds |-> Produto(p, "KG", TRUE)]
    /\ \E row \in CreatedRows :
          /\ row.quantidade_atual = MaxStoreQty
          /\ row.nivel_minimo = 0
          /\ estoques = {row}
    /\ sess = [s \in Sessions |-> IdleSession]
SpecRace == InitRace /\ [][NextRace]_vars

\* the tables of one of the three contexts, as its services leave them
InitWrite ==
    /\ InitEntityVars /\ InitValidarVars
    /\ auth_ret = NoAuth /\ perm_call = NoPermCall /\ user_ret = NoUserCall
    /\ http_ret = NoHttpCall /\ search_ret = NoSearch /\ write_ret = NoWrite
    /\ InitMoreVars
    /\ login_ret = NoLogin
    /\ sess = [s \in Sessions |-> IdleSession]
    /\ usuarios \in WriteUsuarios
    /\ catalogo \in WriteCatalogos
    /\ produtos \in WriteProdutos
    /\ estoques \in WriteEstoques
    /\ \/ catalogo = <<>> /\ estoques = {} /\ produtos = [p \in ProdIds |-> NoProduto]
       \/ usuarios = [u \in UserIds |-> NoUsuario] /\ estoques = {}
             /\ produtos = [p \in ProdIds |-> NoProduto]
       \/ usuarios = [u \in UserIds |-> NoUsuario] /\ catalogo = <<>>
SpecWrite == InitWrite /\ [][NextWrite]_vars

\* add_stock, remove_stock and adjust_stock as functions of the tables: the
\* product absent, or stored with either unit and either status, and no
\* record or one record of unit KG
NextAdjust == CallAddStock \/ CallRemoveStock \/ CallAdjustStock
InitAdjust ==
    /\ InitEntityVars /\ InitValidarVars /\ InitLoginVars /\ InitCallVars
    /\ sess = [s \in Sessions |-> IdleSession]
    /\ produtos \in {[p \in ProdIds |-> NoProduto]} \cup
                    { [p \in ProdIds |-> Produto(p, u, a)] :
                          u \in UnitsExplored, a \in BOOLEAN }
    /\ estoques \in WriteEstoques
SpecAdjust == InitAdjust /\ [][NextAdjust]_vars

\* the quantity reserved, followed through the mutators of a constructed
\* entity and through the inventory service on a stored record
NextReserva ==
    \/ CallAdicionar
    \/ CallRemover
    \/ CallLiberar
    \/ CallAjustar
    \/ CallUpdateMinimum
    \/ CallCreateInventory
    \/ CallAddStock
    \/ CallRemoveStock
    \/ CallAdjustStock
InitReserva ==
    /\ estoque = EstoqueProduto("p1", MaxStoreQty, "KG", MaxReserva, 0, 1, 0).ent
    /\ now = 0 /\ last = NoCall
    /\ InitValidarVars /\ InitLoginVars /\ InitCallVars
    /\ sess = [s \in Sessions |-> IdleSession]
    /\ produtos = [p \in ProdIds |-> Produto(p, "KG", TRUE)]
    /\ estoques \in {{row} : row \in {r \in CreatedRows :
                                   /\ r.quantidade_atual = MaxStoreQty
                                   /\ r.quantidade_reservada = MaxReserva
                                   /\ r.nivel_minimo = 0}}
SpecReserva == InitReserva /\ [][NextReserva]_vars

\* both services from an empty database
InitUnidade ==
    InitEntityVars /\ InitValidarVars /\ InitStoreVars /\ InitLoginVars /\ InitCallVars
SpecUnidade == InitUnidade /\ [][NextUnidade]_vars

\* update_user calls on stored users
InitUpdateUser ==
    /\ usuarios \in UpdateUsuarios
    /\ login_ret = NoLogin
    /\ InitEntityVars /\ InitValidarVars /\ InitStoreVars /\ InitCallVars
SpecUpdateUser == InitUpdateUser /\ [][NextUpdateUser]_vars

\* the session scopes of the requests, from before init_db on
InitScope ==
    /\ InitEntityVars /\ InitValidarVars /\ InitStoreVars /\ InitLoginVars
    /\ InitCallVars
SpecScope == InitScope /\ [][NextScope]_vars

\* every scope that is entered is left, and every abandoned generator is
\* finalized by the event loop
FairScope ==
    \A q \in ScopeIds :
        /\ WF_vars(ExitScope(q) \/ \E exc \in ScopeRaises : RaiseInScope(q, exc))
        /\ WF_vars(FinalizeGenerator(q))
SpecScopeFair == SpecScope /\ FairScope

\* the Produto aggregate: construction, then update_info calls over time
InitProduto ==
    /\ InitEntityVars /\ InitValidarVars /\ InitStoreVars /\ InitLoginVars
    /\ InitCallVars
SpecProduto == InitProduto /\ [][NextProduto]_vars

Init == InitEntity
Next == NextEntity
Spec == SpecEntity

----------------------------------------------------------------------------
(* Properties of the EstoqueProduto entity (SpecEntity) *)

\* C1: after a successful construction and any sequence of adicionar_estoque,
\* remover_estoque, liberar_reserva, ajustar_estoque and update_minimum_level
\* calls with arbitrary integer arguments, quantidade_atual >= 0,
\* 0 <= quantidade_reservada <= quantidade_atual and nivel_minimo >= 0, hence
\* quantidade_disponivel >= 0; a constructor call that violates one of them
\* raises ValidationException and yields no entity.
C1_EntityInvariant ==
    /\ estoque.exists =>
          /\ estoque.quantidade_atual >= 0
          /\ 0 <= estoque.quantidade_reservada
          /\ estoque.quantidade_reservada <= estoque.quantidade_atual
          /\ estoque.nivel_minimo >= 0
          /\ quantidade_disponivel(estoque) >= 0
    /\ ( /\ last.op = "init"
         /\ \/ last.arg < 0
            \/ last.reservada < 0
            \/ last.nivel < 0
            \/ last.reservada > last.arg )
       => (last.exc = ValidationException /\ ~estoque.exists)

\* an adjustment down to exactly the reserved quantity, after which nothing is available
C1_Witness ==
    /\ estoque.exists
    /\ last.op = "ajustar_estoque"
    /\ last.exc = NoException
    /\ last.pre.quantidade_atual > estoque.quantidade_atual
    /\ estoque.quantidade_reservada > 0
    /\ quantidade_disponivel(estoque) = 0

\* C2: remover_estoque(qtd) succeeds exactly when 0 < qtd <= quantidade_disponivel
\* and then decreases quantidade_atual by exactly qtd, leaving
\* quantidade_reservada and nivel_minimo unchanged; qtd <= 0 raises
\* ValidationException, qtd > quantidade_disponivel raises
\* BusinessRuleException, and a failed call changes no field.
C2_RemoverEstoque ==
    last.op = "remover_estoque" =>
        LET qtd == last.arg
            pre == last.pre
        IN  /\ (last.exc = NoException) <=> (0 < qtd /\ qtd <= quantidade_disponivel(pre))
            /\ last.exc = NoException =>
                  /\ estoque.quantidade_atual = pre.quantidade_atual - qtd
                  /\ estoque.quantidade_reservada = pre.quantidade_reservada
                  /\ estoque.nivel_minimo = pre.nivel_minimo
            /\ qtd <= 0 => last.exc = ValidationException
            /\ (qtd > 0 /\ qtd > quantidade_disponivel(pre)) => last.exc = BusinessRuleException
            /\ last.exc # NoException => estoque = pre

\* atual = 10, reservada = 4: removing 6 leaves atual = 4
C2_Witness ==
    /\ last.op = "remover_estoque"
    /\ last.pre.quantidade_atual = 10
    /\ last.pre.quantidade_reservada = 4
    /\ last.arg = 6
    /\ last.exc = NoException
    /\ estoque.quantidade_atual = 4

\* C6: ajustar_estoque(nova_quantidade) raises ValidationException when
\* nova_quantidade < 0, BusinessRuleException when
\* 0 <= nova_quantidade < quantidade_reservada, and otherwise sets
\* quantidade_atual to exactly nova_quantidade, above or below the previous
\* value, leaving quantidade_reservada and nivel_minimo unchanged; the
\* boundary nova_quantidade = quantidade_reservada succeeds; a failed call
\* changes nothing.
C6_AjustarEstoque ==
    last.op = "ajustar_estoque" =>
        LET nova == last.arg
            pre == last.pre
        IN  /\ nova < 0 => last.exc = ValidationException
            /\ (0 <= nova /\ nova < pre.quantidade_reservada) =>
                  last.exc = BusinessRuleException
            /\ (0 <= nova /\ nova >= pre.quantidade_reservada) =>
                  /\ last.exc = NoException
                  /\ estoque.quantidade_atual = nova
                  /\ estoque.quantidade_reservada = pre.quantidade_reservada
                  /\ estoque.nivel_minimo = pre.nivel_minimo
            /\ last.exc # NoException => estoque = pre

\* reservada = 5: the adjustment to 5 succeeds
C6_Witness ==
    /\ last.op = "ajustar_estoque"
    /\ last.pre.quantidade_reservada = 5
    /\ last.pre.quantidade_atual > 5
    /\ last.arg = 5
    /\ last.exc = NoException
    /\ estoque.quantidade_atual = 5

\* C7: adicionar_estoque(qtd) with qtd > 0 increases quantidade_atual by exactly
\* qtd, leaves quantidade_reservada and nivel_minimo unchanged and sets
\* atualizado_em to the current time, which under a monotonic clock is not
\* before the previous value; with qtd <= 0 it raises ValidationException
\* and leaves every field, atualizado_em included, unchanged.
C7_AdicionarEstoque ==
    last.op = "adicionar_estoque" =>
        LET qtd == last.arg
            pre == last.pre
        IN  /\ qtd > 0 =>
                  /\ last.exc = NoException
                  /\ estoque.quantidade_atual = pre.quantidade_atual + qtd
                  /\ estoque.quantidade_reservada = pre.quantidade_reservada
                  /\ estoque.nivel_minimo = pre.nivel_minimo
                  /\ estoque.atualizado_em = last.at
                  /\ estoque.atualizado_em >= pre.atualizado_em
            /\ qtd <= 0 =>
                  /\ last.exc = ValidationException
                  /\ estoque = pre

\* stock added after the clock has advanced since the construction
C7_Witness ==
    /\ last.op = "adicionar_estoque"
    /\ last.exc = NoException
    /\ last.arg > 0
    /\ estoque.atualizado_em > last.pre.atualizado_em
    /\ estoque.quantidade_atual = last.pre.quantidade_atual + last.arg

\* C8 as stated: liberar_reserva(qtd) succeeds exactly when
\* 0 < qtd <= quantidade_reservada, decreasing quantidade_reservada by qtd
\* and leaving quantidade_atual unchanged; for every other qtd it raises
\* BusinessRuleException and changes nothing.
C8_LiberarReservaAsStated ==
    last.op = "liberar_reserva" =>
        LET qtd == last.arg
            pre == last.pre
        IN  /\ (last.exc = NoException) <=> (0 < qtd /\ qtd <= pre.quantidade_reservada)
            /\ last.exc = NoException =>
                  /\ estoque.quantidade_reservada = pre.quantidade_reservada - qtd
                  /\ estoque.quantidade_atual = pre.quantidade_atual
            /\ ~(0 < qtd /\ qtd <= pre.quantidade_reservada) =>
                  /\ last.exc = BusinessRuleException
                  /\ estoque = pre

\* C8 amended: liberar_reserva(qtd) succeeds exactly when
\* 0 < qtd <= quantidade_reservada, decreasing quantidade_reservada by qtd
\* and leaving quantidade_atual unchanged; qtd <= 0 raises
\* ValidationException, qtd > quantidade_reservada raises
\* BusinessRuleException, and a failed call changes nothing.
C8_LiberarReserva ==
    last.op = "liberar_reserva" =>
        LET qtd == last.arg
            pre == last.pre
        IN  /\ (last.exc = NoException) <=> (0 < qtd /\ qtd <= pre.quantidade_reservada)
            /\ last.exc = NoException =>
                  /\ estoque.quantidade_reservada = pre.quantidade_reservada - qtd
                  /\ estoque.quantidade_atual = pre.quantidade_atual
            /\ qtd <= 0 => last.exc = ValidationException
            /\ (qtd > 0 /\ qtd > pre.quantidade_reservada) =>
                  last.exc = BusinessRuleException
            /\ last.exc # NoException => estoque = pre

\* part of a reservation is released
C8_Witness ==
    /\ last.op = "liberar_reserva"
    /\ last.exc = NoException
    /\ last.pre.quantidade_reservada >= 2
    /\ estoque.quantidade_reservada = last.pre.quantidade_reservada - last.arg
    /\ estoque.quantidade_reservada > 0

----------------------------------------------------------------------------
(* Properties of EstoqueService.validar_movimentacao_estoque (SpecValidar) *)

\* C4: validar_movimentacao_estoque raises BusinessRuleException for the first
\* check that fails, in the order (1) inactive product, (2) unit mismatch,
\* (3) quantidade <= 0, (4) outgoing movement above the available quantity;
\* it returns without error exactly when none holds, and it modifies neither
\* the inventory nor the product.
C4_ValidarOrder ==
    vret.done =>
        LET e == vcall.estoque
            produto == vcall.produto
            q == vcall.quantidade
            saida == vcall.tipo_operacao \in {"saida", "remover"}
            c1 == ~produto.ativo
            c2 == e.unidade_medida # produto.unidade_medida
            c3 == q <= 0
            c4 == saida /\ q > quantidade_disponivel(e)
        IN  /\ c1 => (vret.exc = BusinessRuleException /\ vret.msg = MsgInactive)
            /\ (~c1 /\ c2) =>
                  (vret.exc = BusinessRuleException /\ vret.msg = MsgUnitMismatch)
            /\ (~c1 /\ ~c2 /\ c3) =>
                  (vret.exc = BusinessRuleException /\ vret.msg = MsgNotPositive)
            /\ (~c1 /\ ~c2 /\ ~c3 /\ c4) =>
                  (vret.exc = BusinessRuleException /\ vret.msg = MsgInsufficient)
            /\ (vret.exc = NoException) <=> (~c1 /\ ~c2 /\ ~c3 /\ ~c4)
            /\ vret.estoque = e
            /\ vret.produto = produto

\* units differ and the quantity is not positive: the unit check answers
C4_Witness ==
    /\ vret.done
    /\ vcall.produto.ativo
    /\ vcall.estoque.unidade_medida # vcall.produto.unidade_medida
    /\ vcall.quantidade <= 0
    /\ vret.msg = MsgUnitMismatch

----------------------------------------------------------------------------
(* Properties of EstoqueApplicationService over the store (SpecStore) *)

RowsOf(rows, p) == {r \in rows : r.produto_id = p}

OneRecordPerProduct ==
    \A r1 \in estoques, r2 \in estoques : r1.produto_id = r2.produto_id => r1 = r2

\* a create_inventory request that started when a record was committed
LateCreateRejected ==
    \A s \in Sessions :
        (sess[s].op = "create_inventory" /\ sess[s].had_record) =>
            \/ sess[s].pc = "create_got_product"
            \/ sess[s].pc = "failed" /\ sess[s].exc = BusinessRuleException

\* a create_inventory request for a product that is not stored
NoProductRejected ==
    \A s \in Sessions :
        ( /\ sess[s].pc = "idle"
          /\ sess'[s].op = "create_inventory"
          /\ ~produtos[sess'[s].dto.produto_id].exists )
        => /\ sess'[s].pc = "failed"
           /\ sess'[s].exc = BusinessRuleException
           /\ estoques' = estoques

\* a create_inventory request that raises adds nothing
FailedCreateAddsNothing ==
    \A s \in Sessions :
        ( /\ sess'[s].op = "create_inventory"
          /\ sess[s].pc # "failed"
          /\ sess'[s].pc = "failed" )
        => estoques' = estoques

\* C3: at most one inventory record exists per produto_id in every reachable
\* state of the store, under any interleaving of concurrent create_inventory
\* requests; a request that starts after a record for the product has been
\* committed raises BusinessRuleException and adds nothing, and so does a
\* request for a produto_id with no stored product.
C3_OneRecordPerProduct ==
    /\ [](OneRecordPerProduct /\ LateCreateRejected)
    /\ [][NoProductRejected /\ FailedCreateAddsNothing]_vars

\* two requests passed the existence check; one committed, the other was
\* refused by the unique index
C3_Witness ==
    /\ Cardinality(estoques) = 1
    /\ \E s \in Sessions :
         /\ sess[s].op = "create_inventory"
         /\ sess[s].pc = "failed"
         /\ sess[s].exc = IntegrityError

MovOps == {"add_stock", "remove_stock"}

\* the stored row of product p (estoques holds one)
RowOf(rows, p) == CHOOSE r \in rows : r.produto_id = p

MovAbsentRejected ==
    \A s \in Sessions :
        /\ ( /\ sess[s].pc = "idle"
             /\ sess'[s].op \in MovOps
             /\ RowsOf(estoques, sess'[s].dto.produto_id) = {} )
           => (sess'[s].pc = "failed" /\ sess'[s].exc = BusinessRuleException)
        /\ ( /\ sess[s].pc = "mov_got_inventory"
             /\ sess'[s].pc # "mov_got_inventory"
             /\ ~produtos[sess[s].dto.produto_id].exists )
           => (sess'[s].pc = "failed" /\ sess'[s].exc = BusinessRuleException)

FailedMovChangesNothing ==
    \A s \in Sessions :
        ( /\ sess'[s].op \in MovOps
          /\ sess[s].pc # "failed"
          /\ sess'[s].pc = "failed" )
        => estoques' = estoques

MovSuccessWritesReadValue ==
    \A s \in Sessions :
        ( /\ sess'[s].op \in MovOps
          /\ sess[s].pc # "done"
          /\ sess'[s].pc = "done" )
        => LET p == sess[s].dto.produto_id
               q == sess[s].dto.quantidade
               read == sess[s].pending.loaded.quantidade_atual
           IN  /\ RowOf(estoques', p).quantidade_atual =
                     IF sess[s].op = "add_stock" THEN read + q ELSE read - q
               /\ RowOf(estoques', p).quantidade_reservada =
                     RowOf(estoques, p).quantidade_reservada

\* C5: add_stock and remove_stock raise BusinessRuleException when no
\* inventory record exists for the product or the product is absent; whenever
\* either raises, the stored inventory record is unchanged; when it succeeds,
\* the stored quantidade_atual is the value it read plus (add_stock) or minus
\* (remove_stock) the requested quantity and quantidade_reservada is unchanged.
C5_StockMovement ==
    [][MovAbsentRejected /\ FailedMovChangesNothing /\ MovSuccessWritesReadValue]_vars

\* a removal is committed while a record with a reservation is stored
C5_Witness ==
    \E s \in Sessions :
        /\ sess[s].op = "remove_stock"
        /\ sess[s].pc = "done"
        /\ \E r \in estoques : r.quantidade_reservada > 0
                               /\ r.quantidade_atual = r.quantidade_reservada

----------------------------------------------------------------------------
(* Properties of AuthApplicationService.login (SpecLogin) *)

\* the stored user the login's email matches, in the table the call read
Matched == get_by_email(login_ret.before, login_ret.email)

LoginCalled == login_ret.email # "none"

\* C9: a login with an email that matches no stored user and a login for a
\* stored user, whatever the account's state, with a wrong password both end
\* in ValidationException 'Invalid email or password'.
C9_UniformCredentialFailure ==
    ( /\ LoginCalled
      /\ \/ ~Matched.exists
         \/ ~verify_password(Matched, login_ret.senha) )
    => /\ login_ret.exc = ValidationException
       /\ login_ret.msg = MsgInvalidCredentials

StoredPermissions == login_ret.before[Matched.id].permissoes

LoginOutcome ==
    LoginCalled =>
        LET ok == /\ Matched.exists
                  /\ Matched.ativo
                  /\ verify_password(Matched, login_ret.senha)
            r == login_ret.response
        IN  /\ (login_ret.exc = NoException) <=> ok
            /\ ok =>
                  /\ jwt_decode(r.access_token, jwt_secret_key, jwt_algorithm).payload.sub
                        = Matched.id
                  /\ r.user_id = Matched.id
                  /\ r.permissions = StoredPermissions
                  /\ r.token_type = "bearer"
                  /\ r.expires_in = jwt_access_token_expire_minutes * 60
            /\ ( /\ Matched.exists
                 /\ ~Matched.ativo
                 /\ verify_password(Matched, login_ret.senha) )
               => /\ login_ret.exc = BusinessRuleException
                  /\ r = NoResponse
            /\ ~ok => r = NoResponse

\* C10: login returns a token response exactly when the user exists, is active
\* and the password verifies against the stored hash; then the token's sub
\* claim and the response's user_id are the user's id, the permissions are
\* the stored permission strings, token_type is 'bearer' and expires_in is
\* jwt_access_token_expire_minutes * 60.  A deactivated account with its
\* correct password gets BusinessRuleException and no token; login never
\* modifies the user store.
C10_LoginOutcome ==
    /\ []LoginOutcome
    /\ [][login_ret' # login_ret => usuarios' = usuarios]_vars

\* an active administrator logs in with the right password
C10_Witness ==
    /\ LoginCalled
    /\ login_ret.exc = NoException
    /\ login_ret.response.permissions = <<"admin:*">>
    /\ login_ret.response.user_id = Matched.id

----------------------------------------------------------------------------
(* Properties of the authentication dependencies (SpecAuth) *)

\* the conditions under which the token of the last request names a user:
\* it decodes, carries a sub claim, the user is stored, the user is active
TokenDecodes ==
    /\ auth_ret.token.key = jwt_secret_key
    /\ auth_ret.token.alg = jwt_algorithm
    /\ auth_ret.token.payload.exp >= auth_ret.at
TokenHasSub == auth_ret.token.payload.sub # "none"
TokenUserStored ==
    /\ auth_ret.token.payload.sub \in UserIds
    /\ auth_ret.before[auth_ret.token.payload.sub].exists
TokenUserActive ==
    /\ TokenUserStored
    /\ auth_ret.before[auth_ret.token.payload.sub].ativo

\* C11: get_current_user returns a user only when the token decodes with the
\* configured secret and algorithm, carries a sub claim, the referenced user
\* exists and is active; in each of the four failure cases it fails the same
\* way: HTTP 401 with the header WWW-Authenticate: Bearer.
C11_CurrentUserOrUniform401 ==
    auth_ret.called =>
        IF TokenDecodes /\ TokenHasSub /\ TokenUserStored /\ TokenUserActive
        THEN /\ auth_ret.current.exc = NoHTTPException
             /\ auth_ret.current.user.id = auth_ret.token.payload.sub
        ELSE /\ auth_ret.current.exc.status = 401
             /\ <<"WWW-Authenticate", "Bearer">> \in auth_ret.current.exc.headers
             /\ auth_ret.current.user = NoUsuario

\* the permission strings stored for the authenticated user of the last request
StoredUserPermissions ==
    LET row == auth_ret.before[auth_ret.current.user.id] IN
    { row.permissoes[i] : i \in 1 .. Len(row.permissoes) }

\* C12: the dependency of require_permission(s) admits an authenticated
\* active user exactly when the user's stored permission strings contain s
\* or "admin:*"; otherwise it fails with HTTP 403 "Permission required: s"
\* and the handler is not executed.
C12_RequirePermission ==
    auth_ret.called =>
        /\ auth_ret.current.exc # NoHTTPException => ~auth_ret.handler_ran
        /\ auth_ret.current.exc = NoHTTPException =>
             IF auth_ret.permission \in StoredUserPermissions
                \/ "admin:*" \in StoredUserPermissions
             THEN /\ auth_ret.checked.exc = NoHTTPException
                  /\ auth_ret.checked.user = auth_ret.current.user
                  /\ auth_ret.handler_ran
             ELSE /\ auth_ret.checked.exc.status = 403
                  /\ auth_ret.checked.exc.detail =
                         "Permission required: " \o auth_ret.permission
                  /\ ~auth_ret.handler_ran

\* a user holding only "admin:*" is admitted to an endpoint requiring
\* "usuarios:delete"
C12_Witness ==
    /\ auth_ret.called
    /\ auth_ret.current.exc = NoHTTPException
    /\ auth_ret.permission = "usuarios:delete"
    /\ StoredUserPermissions = {"admin:*"}
    /\ auth_ret.handler_ran

----------------------------------------------------------------------------
(* Properties of Permissao.can_access (SpecPermissao) *)

\* C13: held.can_access(required) is true exactly when held is admin:*, or
\* held.recurso = required.recurso and (held.acao = "*" or held.acao =
\* required.acao): a wildcard on a non-admin resource grants nothing on a
\* different resource.
C13_CanAccess ==
    perm_call.called =>
        LET p == perm_call.held
            r == perm_call.required
        IN  perm_call.result <=>
               \/ p.recurso = "admin" /\ p.acao = "*"
               \/ p.recurso = r.recurso /\ (p.acao = "*" \/ p.acao = r.acao)

----------------------------------------------------------------------------
(* Properties of UsuarioApplicationService (SpecUsuario) *)

StoredEmails(rows) == { rows[u].email : u \in { v \in UserIds : rows[v].exists } }

UniqueEmails ==
    \A u \in UserIds, v \in UserIds :
        (usuarios[u].exists /\ usuarios[v].exists /\ usuarios[u].email = usuarios[v].email)
            => u = v

\* a create_user call for an address that identifies a stored user
DuplicateCreateRejected ==
    ( /\ user_ret'.n # user_ret.n
      /\ user_ret'.op = "create_user"
      /\ Email(user_ret'.email) \in StoredEmails(usuarios) )
    => /\ user_ret'.exc = BusinessRuleException
       /\ usuarios' = usuarios

\* C14: create_user for an email that identifies an already stored user (the
\* same address after trimming and lower-casing) raises BusinessRuleException
\* and stores nothing; after any sequence of create_user, update_user and
\* delete_user calls no two stored users have the same email.
C14_DuplicateEmailRejected ==
    /\ []UniqueEmails
    /\ [][DuplicateCreateRejected]_vars

----------------------------------------------------------------------------
(* Properties of the routers (SpecHttp) *)

\* C15: for every endpoint of the auth, usuarios, produtos and estoque
\* routers a ValidationException of the application service is answered with
\* HTTP 400 (401 on login) and a BusinessRuleException with 409 (403 on
\* login), never with 500.
C15_DomainExceptionStatus ==
    http_ret.called =>
        /\ http_ret.exc = ValidationException =>
              http_ret.status = IF http_ret.endpoint.handler = "login" THEN 401 ELSE 400
        /\ http_ret.exc = BusinessRuleException =>
              http_ret.status = IF http_ret.endpoint.handler = "login" THEN 403 ELSE 409

----------------------------------------------------------------------------
(* Properties of the seed script (SpecSeed) *)

AdminRows(rows) == { u \in UserIds : rows[u].exists /\ rows[u].email = AdminEmail }

\* every stored admin user is the seeded one, and there is at most one
AdminAsSeeded ==
    /\ Cardinality(AdminRows(usuarios)) <= 1
    /\ \A u \in AdminRows(usuarios) :
          usuarios[u].ativo /\ usuarios[u].permissoes = <<"admin:*">>

\* one run of the seed script
SeedRun ==
    ( /\ user_ret'.n # user_ret.n
      /\ user_ret'.op = "seed" )
    => /\ AdminRows(usuarios) # {} =>
            /\ user_ret'.exc = NoException
            /\ user_ret'.msg = MsgEmailExists
            /\ usuarios' = usuarios
       /\ user_ret'.exc = NoException => Cardinality(AdminRows(usuarios')) = 1
       /\ user_ret'.exc # NoException =>
            /\ ~ContainsAlreadyExists(user_ret'.msg)
            /\ usuarios' = usuarios

\* C16: the seed is idempotent: a run against a database that holds the
\* admin user logs the "already exists" failure, swallows it and changes
\* nothing; a run that returns leaves exactly one user admin@inventory.com,
\* active and holding admin:*; a failure whose message does not contain
\* "already exists" is re-raised.
C16_SeedIdempotent ==
    /\ []AdminAsSeeded
    /\ [][SeedRun]_vars

\* a second run of the seed: the failure was swallowed
C16_Witness ==
    /\ user_ret.op = "seed"
    /\ user_ret.msg = MsgEmailExists
    /\ user_ret.exc = NoException
    /\ Cardinality(AdminRows(usuarios)) = 1

----------------------------------------------------------------------------
(* C17 *)

\* the source the priority order names for a request
SourceByPriority(d) ==
    CASE d.sku # "" -> "get_by_sku"
      [] d.sku = "" /\ d.nome # <<>> -> "search_by_name"
      [] d.sku = "" /\ d.nome = <<>> /\ d.categoria # "" -> "get_by_category"
      [] d.sku = "" /\ d.nome = <<>> /\ d.categoria = "" /\ d.ativo = "true" ->
            "get_active_products"
      [] OTHER -> "get_all"

\* what a source alone returns for a request
SourceResult(source, d, skip, limit) ==
    CASE source = "get_by_sku" -> get_by_sku(catalogo, d.sku)
      [] source = "search_by_name" -> search_by_name(catalogo, d.nome, skip, limit)
      [] source = "get_by_category" ->
            get_by_category(catalogo, d.categoria, skip, limit)
      [] source = "get_active_products" -> get_active_products(catalogo, skip, limit)
      [] OTHER -> get_all(catalogo, skip, limit)

\* the positions of a source result whose product has the requested ativo
KeptPositions(result, ativo) ==
    { i \in DOMAIN result : ativo = "none" \/ result[i].ativo = (ativo = "true") }

SearchStep ==
    search_ret'.n # search_ret.n =>
        LET d == search_ret'.dto
            result == SourceResult(SourceByPriority(d), d, search_ret'.skip,
                                   search_ret'.limit)
            kept == KeptPositions(result, d.ativo)
            out == search_ret'.produtos
        IN  /\ search_ret'.source = SourceByPriority(d)
            /\ Len(out) = Cardinality(kept)
            /\ \A i \in DOMAIN out : \E k \in kept :
                 /\ out[i] = result[k]
                 /\ Cardinality({ j \in kept : j < k }) = i - 1
            /\ search_ret'.total = Len(out)

\* C17: search_products takes its products from exactly one source, chosen by
\* priority (sku, nome, categoria, ativo = true, else all), keeps of them, in
\* order, exactly those whose ativo equals a specified ativo, and returns as
\* total the number of products in that returned page.
C17_SearchDispatch == [][SearchStep]_vars

\* a search for inactive products through the unfiltered list returns a page
\* whose total is smaller than the number of inactive products stored, and
\* the page of the source held a product the filter removed or cut one off
C17_Witness ==
    /\ search_ret.source = "get_all"
    /\ search_ret.dto.ativo = "false"
    /\ search_ret.total > 0
    /\ search_ret.total < Cardinality({ i \in DOMAIN catalogo : ~catalogo[i].ativo })
    /\ \A i \in DOMAIN search_ret.produtos :
         \E k \in DOMAIN catalogo : catalogo[k] = search_ret.produtos[i]

----------------------------------------------------------------------------
(* C18 *)

\* session s commits the UPDATE of a movement that changed the quantity
CommitsMovement(s) ==
    /\ sess[s].pc = "flushed"
    /\ sess'[s].pc = "done"
    /\ sess[s].pending.kind = "update"
    /\ sess[s].pending.ent.quantidade_atual # sess[s].pending.loaded.quantidade_atual

\* the committed row holds the quantity the request computed from its own read
LaterWriteWins ==
    \A s \in Sessions :
        CommitsMovement(s) =>
            \E r \in estoques' :
                /\ r.id = sess[s].pending.row.id
                /\ r.quantidade_atual = sess[s].pending.ent.quantidade_atual

\* a request that has read the record and not yet written it holds no lock
\* (the locks are those of the pending writes)
ReadsTakeNoLock ==
    \A s \in Sessions :
        sess[s].pc \in {"mov_got_inventory", "mov_got_product"} =>
            sess[s].pending = NoPending

\* C18: add_stock, remove_stock and adjust_stock read the record, compute and
\* write it back without lock or version check: a request that has read holds
\* no lock, and the commit of a movement stores the quantity computed from
\* the request's own read whatever the row holds by then, so that of two
\* requests that read before either commits both commit and the later write
\* alone remains.
C18_UnsynchronisedMovements == []ReadsTakeNoLock /\ [][LaterWriteWins]_vars

\* two removals, run once each against a record that held MaxStoreQty, have
\* both committed and the record holds more than any serial execution of two
\* removals leaves
C18_Witness ==
    /\ \A s \in Sessions : sess[s].pc = "done" /\ sess[s].op = "remove_stock"
    /\ \E r \in estoques : r.quantidade_atual > MaxStoreQty - 2

----------------------------------------------------------------------------
(* C19 *)

\* C19: whatever the interleaving of add_stock, remove_stock and adjust_stock
\* requests on a product, every committed row of its inventory record has
\* 0 <= quantidade_reservada <= quantidade_atual and nivel_minimo >= 0.
C19_CommittedRowsValid ==
    \A r \in estoques :
        /\ 0 <= r.quantidade_reservada
        /\ r.quantidade_reservada <= r.quantidade_atual
        /\ r.nivel_minimo >= 0

\* a race on a record with a reservation: one request has committed, which
\* left no stock available, and the other, which read the record before
\* that, has flushed the quantity it computed from its read
C19_Witness ==
    \E s \in Sessions, t \in Sessions, r \in estoques :
        /\ s # t
        /\ sess[t].pc = "done"
        /\ sess[t].op \in {"remove_stock", "adjust_stock"}
        /\ sess[s].pc = "flushed"
        /\ sess[s].op \in {"remove_stock", "adjust_stock"}
        /\ sess[s].pending.row.id = r.id
        /\ r.quantidade_reservada > 0
        /\ r.quantidade_atual = r.quantidade_reservada
        /\ sess[s].pending.loaded.quantidade_atual > r.quantidade_atual
        /\ sess[s].pending.ent.quantidade_atual < sess[s].pending.loaded.quantidade_atual

----------------------------------------------------------------------------
(* C20 *)

\* the call mutated through its repository, committed once and returned
CommittedAndReturned ==
    /\ write_ret.exc = NoException
    /\ write_ret.returned \notin {"raised", "None", "False"}
    /\ write_ret.flushed
    /\ write_ret.commits = 1
    /\ write_ret.rollbacks = 0

\* the call raised: it rolled back, the exception left the call and the table
\* is as it was
RolledBackAndRaised ==
    /\ write_ret.exc # NoException
    /\ write_ret.returned = "raised"
    /\ write_ret.rollbacks >= 1
    /\ ~write_ret.changed

\* the call found no row to update or delete: it returned None or False and
\* neither mutated, committed nor rolled back
NothingToWrite ==
    /\ write_ret.exc = NoException
    /\ write_ret.returned \in {"None", "False"}
    /\ write_ret.op \in {"update_user", "delete_user", "update_product",
                         "delete_product"}
    /\ ~write_ret.flushed
    /\ ~write_ret.changed
    /\ write_ret.commits = 0
    /\ write_ret.rollbacks = 0

\* C20 as stated: every write operation ends either committed once after its
\* repository mutation and returned, or rolled back with its exception raised.
C20_CommitOrRollbackAsStated ==
    write_ret.op # "none" => CommittedAndReturned \/ RolledBackAndRaised

\* C20: every write operation ends committed once after its repository
\* mutation and returned, or rolled back with its exception raised, or, when
\* update_user, delete_user, update_product or delete_product finds no row,
\* returned None or False with no mutation, no commit and no rollback; none
\* returns after a mutation without its commit and none returns after an
\* exception.
C20_CommitOrRollback ==
    write_ret.op # "none" =>
        /\ CommittedAndReturned \/ RolledBackAndRaised \/ NothingToWrite
        /\ (write_ret.exc = NoException /\ (write_ret.flushed \/ write_ret.changed))
             => write_ret.commits = 1

\* an update of a user that is not stored returned None
C20_Witness ==
    /\ write_ret.op = "update_user"
    /\ write_ret.returned = "None"
    /\ write_ret.commits = 0

----------------------------------------------------------------------------
\* C21: no session is handed out before init_db has run (the scope fails with
\* RuntimeError "Database not initialized"); a scope that has exited has its
\* session closed; a scope that has exited by raising has its session rolled
\* back and closed, with the exception propagated; and no two scopes hold
\* the same session.
ScopeExited(q) == scope[q].pc \in {"abandoned", "exited"}

C21_SessionScopeProtocol ==
    \A q \in ScopeIds :
        /\ scope[q].session # 0 => async_session_factory
        /\ scope[q].pc = "failed" =>
               /\ scope[q].raised = RuntimeError
               /\ scope[q].msg = MsgDbNotInitialized
               /\ scope[q].session = 0
        /\ ScopeExited(q) => scope[q].closed
        /\ ScopeExited(q) /\ scope[q].raised # NoException =>
               scope[q].rolled_back /\ scope[q].closed
        /\ \A o \in ScopeIds \ {q} :
               scope[q].session # 0 => scope[o].session # scope[q].session

----------------------------------------------------------------------------
\* C30: a Produto.update_info call that raises ValidationException leaves
\* nome, descricao, categoria and updated_at of the aggregate as they were
\* before the call.
C30_UpdateInfoAllOrNothing ==
    update_ret.op = "update_info" /\ update_ret.exc = ValidationException =>
        /\ aggregate.nome = update_ret.pre.nome
        /\ aggregate.descricao = update_ret.pre.descricao
        /\ aggregate.categoria = update_ret.pre.categoria
        /\ aggregate.updated_at = update_ret.pre.updated_at

----------------------------------------------------------------------------
\* C22: adjust_stock runs no movement validation. With the record and the
\* product present it succeeds for every nova_quantidade >= quantidade_reservada,
\* upwards or downwards, also for an inactive product or a product of another
\* unit, and the stored quantidade_atual becomes nova_quantidade; in such a
\* state add_stock and remove_stock raise BusinessRuleException. With the
\* record or the product absent adjust_stock raises BusinessRuleException.
FailsValidation(inventory, product) ==
    ~product.ativo \/ product.unidade_medida # inventory.unidade_medida

C22_AdjustSkipsValidation ==
    \A dto \in EstoqueAjusteDTO :
        LET inventory == get_by_produto_id(estoques, dto.produto_id).ent
            product == produtos[dto.produto_id]
            r == adjust_stock(produtos, estoques, dto, now, "none")
        IN  /\ ~inventory.exists \/ ~product.exists =>
                   r.exc = BusinessRuleException /\ r.rows = estoques
            /\ /\ inventory.exists /\ product.exists
               /\ dto.nova_quantidade >= inventory.quantidade_reservada
               => /\ r.exc = NoException
                  /\ \A row \in r.rows :
                         row.produto_id = dto.produto_id =>
                             /\ row.quantidade_atual = dto.nova_quantidade
                             /\ row.quantidade_reservada =
                                    inventory.quantidade_reservada
            /\ /\ inventory.exists /\ product.exists
               /\ FailsValidation(inventory, product)
               => \A m \in EstoqueMovimentacaoDTO, dbfail \in DbFailures :
                      /\ add_stock(produtos, estoques, m, now, dbfail).exc =
                             BusinessRuleException
                      /\ remove_stock(produtos, estoques, m, now, dbfail).exc =
                             BusinessRuleException

\* an adjustment committed for an inactive product of another unit
C22_Witness ==
    /\ write_ret.op = "adjust_stock"
    /\ write_ret.exc = NoException
    /\ write_ret.changed
    /\ \E row \in estoques :
           /\ produtos[row.produto_id].exists
           /\ ~produtos[row.produto_id].ativo
           /\ produtos[row.produto_id].unidade_medida # row.unidade_medida
           /\ row.quantidade_atual = 0

----------------------------------------------------------------------------
\* C23: no operation increases quantidade_reservada. A call on the entity
\* leaves it at most what it was, and only liberar_reserva changes it; a
\* call of create_inventory, add_stock, remove_stock or adjust_stock leaves
\* the stored quantidade_reservada of every existing record as it was.
EntityReservaStep ==
    estoque.exists /\ estoque'.exists =>
        /\ estoque'.quantidade_reservada <= estoque.quantidade_reservada
        /\ estoque'.quantidade_reservada # estoque.quantidade_reservada =>
               last'.op = "liberar_reserva"

StoredReservaStep ==
    \A row \in estoques :
        \E after \in estoques' :
            /\ after.id = row.id
            /\ after.quantidade_reservada = row.quantidade_reservada

C23_ReservaNeverIncreases == [][EntityReservaStep /\ StoredReservaStep]_vars

\* a reservation released on the entity, and a stored record with a
\* reservation whose quantity a service call has changed
C23_Witness ==
    /\ last.op = "liberar_reserva"
    /\ estoque.quantidade_reservada < last.pre.quantidade_reservada
    /\ write_ret.op \in {"add_stock", "remove_stock", "adjust_stock"}
    /\ write_ret.changed
    /\ \E row \in estoques : row.quantidade_reservada > 0

----------------------------------------------------------------------------
\* the checks of create_inventory that precede the validation of the
\* quantity all pass: the product is stored and has no record, the unit is a
\* unit, the entity is constructed, the product is active and of that unit
ReachesQuantityCheck(dto) ==
    LET product == produtos[dto.produto_id]
        existing == get_by_produto_id(estoques, dto.produto_id)
        u == UnidadeMedida(dto.unidade_medida)
    IN  /\ product.exists
        /\ existing.exc = NoException /\ ~existing.ent.exists
        /\ u.exc = NoException
        /\ dto.quantidade_reservada <= dto.quantidade_atual
        /\ product.ativo
        /\ product.unidade_medida = u.codigo

\* C24 as stated: every create_inventory request with quantidade_atual = 0 is
\* rejected with BusinessRuleException "Movement quantity must be positive".
C24_ZeroQuantityAsStated ==
    \A dto \in EstoqueCreateDTO, dbfail \in DbFailures :
        dto.quantidade_atual = 0 =>
            LET r == create_inventory(produtos, estoques, NewId, dto, now, dbfail)
            IN  r.exc = BusinessRuleException /\ r.msg = MsgNotPositive

ZeroQuantityRejected ==
    \A dto \in EstoqueCreateDTO, dbfail \in DbFailures :
        LET r == create_inventory(produtos, estoques, NewId, dto, now, dbfail)
            product == produtos[dto.produto_id]
        IN  /\ dto.quantidade_atual = 0 =>
                /\ r.exc # NoException
                /\ r.rows = estoques
                /\ ReachesQuantityCheck(dto) =>
                       r.exc = BusinessRuleException /\ r.msg = MsgNotPositive
            /\ /\ product.exists
               /\ \/ ~product.ativo
                  \/ product.unidade_medida #
                         UnidadeMedida(dto.unidade_medida).codigo
               => r.exc # NoException /\ r.rows = estoques

CreatedRecordStep ==
    \A row \in estoques' :
        row.id \notin {r.id : r \in estoques} =>
            /\ write_ret'.op = "create_inventory"
            /\ row.quantidade_atual >= 1
            /\ produtos[row.produto_id].exists
            /\ produtos[row.produto_id].ativo
            /\ produtos[row.produto_id].unidade_medida = row.unidade_medida

\* C24: a create_inventory request with quantidade_atual = 0 is always
\* rejected and stores nothing; the exception is BusinessRuleException
\* "Movement quantity must be positive" when the checks before the quantity
\* pass, and the exception of the first failing check otherwise. Every record
\* the service creates starts with quantidade_atual >= 1, for an active
\* product of the record's unit.
C24_ZeroQuantity == []ZeroQuantityRejected /\ [][CreatedRecordStep]_vars

\* a request with quantity 0 rejected by the validation of the quantity
C24_Witness ==
    /\ write_ret.op = "create_inventory"
    /\ write_ret.exc = BusinessRuleException
    /\ write_ret.msg = MsgNotPositive
    /\ ~write_ret.changed

----------------------------------------------------------------------------
\* C25: a request is authorized from the user as stored when the request is
\* made, whatever the token lists: with the token's subject deleted or
\* deactivated the answer is 401, with the subject active and lacking the
\* required permission (and admin:*) it is 403, and with the permission
\* stored the handler runs, also when the token was issued without it.
StoredSubject == auth_ret.before[auth_ret.token.payload.sub]

StoredGrants(permission) ==
    \E i \in 1 .. Len(StoredSubject.permissoes) :
        StoredSubject.permissoes[i] \in {permission, "admin:*"}

TokenLists(permission) ==
    \E i \in 1 .. Len(auth_ret.token.payload.permissions) :
        auth_ret.token.payload.permissions[i] \in {permission, "admin:*"}

C25_StoredStateDecides ==
    auth_ret.called /\ auth_ret.token.payload.exp >= auth_ret.at =>
        /\ ~StoredSubject.exists \/ ~StoredSubject.ativo =>
               auth_ret.checked.exc.status = 401 /\ ~auth_ret.handler_ran
        /\ /\ StoredSubject.exists /\ StoredSubject.ativo
           /\ ~StoredGrants(auth_ret.permission)
           => auth_ret.checked.exc.status = 403 /\ ~auth_ret.handler_ran
        /\ /\ StoredSubject.exists /\ StoredSubject.ativo
           /\ StoredGrants(auth_ret.permission)
           => auth_ret.handler_ran

\* a token that lists the permission, refused with 403 after the permission
\* was removed from the stored user
C25_Witness ==
    /\ auth_ret.called
    /\ auth_ret.token.payload.exp >= auth_ret.at
    /\ TokenLists(auth_ret.permission)
    /\ StoredSubject.exists /\ StoredSubject.ativo
    /\ ~StoredGrants(auth_ret.permission)
    /\ auth_ret.checked.exc.status = 403

----------------------------------------------------------------------------
\* C26: for an authenticated active user and a required permission string,
\* the dependency of require_permission admits the user exactly when
\* Usuario.has_permission of that string is true.
C26_ChecksAgree ==
    auth_ret.called /\ auth_ret.current.exc = NoHTTPException =>
        ((auth_ret.checked.exc = NoHTTPException) <=>
             has_permission(auth_ret.current.user, auth_ret.permission))

----------------------------------------------------------------------------
\* C27: no request through get_current_user, get_current_active_user and
\* require_permission is answered with the 400 "Inactive user" of
\* get_current_active_user: an inactive user is refused by get_current_user
\* with 401, and what get_current_active_user receives is an active user.
C27_InactiveBranchUnreachable ==
    auth_ret.called =>
        /\ get_current_active_user(auth_ret.current).exc.status # 400
        /\ auth_ret.checked.exc.status # 400
        /\ auth_ret.current.exc = NoHTTPException => auth_ret.current.user.ativo

\* a request of an inactive user with a valid token, refused with 401
C27_Witness ==
    /\ auth_ret.called
    /\ auth_ret.token.payload.sub \in UserIds
    /\ auth_ret.before[auth_ret.token.payload.sub].exists
    /\ ~auth_ret.before[auth_ret.token.payload.sub].ativo
    /\ auth_ret.current.exc = HTTPException(401, "Inactive user", {})
    /\ auth_ret.checked.exc.status = 401

----------------------------------------------------------------------------
\* C28: every stored inventory record references a stored product of the
\* record's unidade_medida, and no call of create_product, update_product,
\* create_inventory, add_stock, remove_stock or adjust_stock changes the
\* unit of a stored product or of a stored record.
UnitsMatch ==
    \A row \in estoques :
        /\ produtos[row.produto_id].exists
        /\ row.unidade_medida = produtos[row.produto_id].unidade_medida

UnitsKept ==
    /\ \A i \in DOMAIN catalogo :
           /\ i \in DOMAIN catalogo'
           /\ catalogo'[i].id = catalogo[i].id
           /\ catalogo'[i].unidade_medida = catalogo[i].unidade_medida
    /\ \A p \in ProdIds :
           produtos[p].exists =>
               produtos'[p].unidade_medida = produtos[p].unidade_medida
    /\ \A row \in estoques :
           \E after \in estoques' :
               after.id = row.id /\ after.unidade_medida = row.unidade_medida

C28_UnitsAgree == []UnitsMatch /\ [][UnitsKept]_vars

\* a record stored for the product, and the product then changed by
\* update_product
C28_Witness ==
    /\ estoques # {}
    /\ write_ret.op = "update_product"
    /\ write_ret.exc = NoException
    /\ write_ret.changed

----------------------------------------------------------------------------
====
